---------------------------- MODULE Spec2Model ----------------------------
(***************************************************************************)
(* A model of the nucleai data-model layer: the SimDB record validators    *)
(* (nucleai/simdb/models.py), the metadata normalizer                      *)
(* (nucleai/simdb/metadata.py) and the IMAS access URI (ImasUri).          *)
(*                                                                         *)
(* Python strings are sequences of tokens.  A token is either one of the   *)
(* delimiter characters the code inspects (":", "/", "?", "&", "=", "#",   *)
(* ".", "_", "[", "]", ",", " ", a digit) or a word that contains none of  *)
(* them, so every string operation of the code (split, strip, startswith,  *)
(* int) is computed on the sequence and not assumed.                       *)
(*                                                                         *)
(* Python values are tagged records: None, str, number, list, dict and     *)
(* pydantic model instance.                                                *)
(***************************************************************************)
EXTENDS Integers, Sequences, FiniteSets, TLC

VARIABLES
    \* --- simulation records (nucleai/simdb/models.py) ---
    model_cls,  \* the model class being validated
    payload,    \* the mapping last handed to model_validate / __init__
    record,     \* outcome of that validation
    dumped,     \* model_dump() of the record, or NoValue
    record2,    \* outcome of validating dumped again, or NoValue
    \* --- access URI ---
    files,      \* the local filesystem: the set of files that exist
    uri_raw,    \* the URI string last parsed, or the empty string
    parsed,     \* outcome of nucleai.simdb.models.ImasUri.parse(uri_raw)
    core_uri,   \* outcome of nucleai.core.models.ImasUri.from_string(uri_raw)
    call,       \* the last method call on the URI and what it returned
    \* --- metadata normalizer (nucleai/simdb/metadata.py) ---
    flat_md,    \* the flat metadata_dict being filled, in insertion order
    normalized, \* outcome of SimulationMetadata.from_metadata_dict(flat_md)
    \* --- field validators called on their own ---
    validator,  \* the "before" validator last called, or "none"
    field_value, \* the value it was given
    validated,  \* what it returned
    \* --- SimDB client (nucleai/simdb/client.py) ---
    http_server,   \* what the server does with the next request
    http_request,  \* arguments of the last _make_request call, or NoValue
    http_response, \* outcome of that call
    \* --- IDS loader (nucleai/imas/loader.py) ---
    loader_entry,  \* self.entry: 0 for None, else the DBEntry it refers to
    db_entries,    \* every imas.DBEntry opened so far: "open" or "closed"
    imas_lock,     \* holder of _imas_lock, or "free"
    event_loop,    \* the coroutine running on the event-loop thread, or "free"
    task,          \* per coroutine: the call it is in and how far it got
    \* --- SimDB client session set-up (SimDBClient.__aenter__) ---
    cookies_file,  \* ~/.config/simdb/iter-cookies.pkl: missing, or its content
    umask,         \* the file-creation mask of the process
    credentials,   \* settings.simdb_username / simdb_password: a pair, or NoValue
    simdb_site,    \* what the server does with GET / and POST /my.policy
    session_log,   \* the requests the last call issued, in order
    session_call   \* the last call of the session set-up and its outcome

simVars == <<model_cls, payload, record, dumped, record2>>
uriVars == <<files, uri_raw, parsed, core_uri, call>>
metaVars == <<flat_md, normalized>>
fieldVars == <<validator, field_value, validated>>
clientVars == <<http_server, http_request, http_response>>
loaderVars == <<loader_entry, db_entries, imas_lock, event_loop, task>>
sessionVars == <<cookies_file, umask, credentials, simdb_site, session_log, session_call>>

vars == <<simVars, uriVars, metaVars, fieldVars, clientVars, loaderVars, sessionVars>>

\* what the operations of one part leave alone
otherThanSim == <<uriVars, metaVars, fieldVars, clientVars, loaderVars, sessionVars>>
otherThanUri == <<simVars, metaVars, fieldVars, clientVars, loaderVars, sessionVars>>
otherThanMeta == <<simVars, uriVars, fieldVars, clientVars, loaderVars, sessionVars>>
otherThanField == <<simVars, uriVars, metaVars, clientVars, loaderVars, sessionVars>>
otherThanClient == <<simVars, uriVars, metaVars, fieldVars, loaderVars, sessionVars>>
otherThanLoader == <<simVars, uriVars, metaVars, fieldVars, clientVars, sessionVars>>
otherThanSession == <<simVars, uriVars, metaVars, fieldVars, clientVars, loaderVars>>

-----------------------------------------------------------------------------
(* Bounds of the model *)

\* longest metadata array of an API payload
MaxItems == 2

\* most keys of a flat metadata_dict
MaxKeys == 2

\* longest body of an ids string, in characters and names
MaxIdsLen == 4

\* longest outputs list of a directly constructed Simulation
MaxOutputs == 2

\* most imas.DBEntry objects opened in one run
MaxEntries == 2

\* most endpoints a server lists
MaxEndpoints == 2

-----------------------------------------------------------------------------
(* Python values *)

NoValue == [t |-> "unset"]
PyNone == [t |-> "none"]
PyStr(s) == [t |-> "str", v |-> s]
PyNum(n) == [t |-> "num", v |-> n]
PyList(l) == [t |-> "list", v |-> l]
PyDict(d) == [t |-> "dict", v |-> d]
PyModel(c, d) == [t |-> "model", cls |-> c, v |-> d]

\* a one-word string
W(x) == PyStr(<<x>>)
EmptyStr == PyStr(<< >>)

\* the outcome of a call: a returned value or a raised exception
Ok(v) == [ok |-> TRUE, v |-> v]
Raise(e) == [ok |-> FALSE, err |-> e]
\* no call made yet
NoCall == [ok |-> FALSE, err |-> "unset"]

\* no method of the URI has been called yet
Idle == [op |-> "none", result |-> NoCall, warned |-> FALSE, at |-> {}, prev |-> NoCall]

EmptyMap == [k \in {} |-> PyNone]

\* dict.get(key, default)
Get(d, k, default) == IF k \in DOMAIN d THEN d[k] ELSE default

\* d[k] = v on a copy of d
Put(d, k, v) == [x \in DOMAIN d \cup {k} |-> IF x = k THEN v ELSE d[x]]

\* Python truthiness of a value
Truthy(x) ==
    CASE x.t = "none" -> FALSE
      [] x.t = "str" -> x.v # << >>
      [] x.t = "list" -> x.v # << >>
      [] x.t = "dict" -> DOMAIN x.v # {}
      [] x.t = "num" -> x.v # 0
      [] OTHER -> TRUE

-----------------------------------------------------------------------------
(* Python string operations, on token sequences *)

Last(s) == s[Len(s)]

\* s.startswith(p), s.endswith(p)
StartsWith(s, p) == Len(s) >= Len(p) /\ SubSeq(s, 1, Len(p)) = p
EndsWith(s, p) == Len(s) >= Len(p) /\ SubSeq(s, Len(s) - Len(p) + 1, Len(s)) = p

\* the index of the first occurrence of token d in s, or 0
RECURSIVE FindFrom(_, _, _)
FindFrom(s, d, i) ==
    IF i > Len(s) THEN 0
    ELSE IF s[i] = d THEN i
    ELSE FindFrom(s, d, i + 1)

Find(s, d) == FindFrom(s, d, 1)

\* s.split(d) for a one-character separator d: the list of the pieces
RECURSIVE Split(_, _)
Split(s, d) ==
    LET i == Find(s, d)
    IN  IF i = 0 THEN <<s>>
        ELSE <<SubSeq(s, 1, i - 1)>> \o Split(SubSeq(s, i + 1, Len(s)), d)

\* s.replace(old, new): every non-overlapping occurrence, left to right
RECURSIVE Replace(_, _, _)
Replace(s, old, new) ==
    IF s = << >> \/ old = << >> THEN s
    ELSE IF StartsWith(s, old)
         THEN new \o Replace(SubSeq(s, Len(old) + 1, Len(s)), old, new)
         ELSE <<s[1]>> \o Replace(Tail(s), old, new)

\* s.lstrip(chars), s.rstrip(chars), s.strip(chars) for a set of characters
RECURSIVE LStrip(_, _)
LStrip(s, chars) ==
    IF s # << >> /\ s[1] \in chars THEN LStrip(Tail(s), chars) ELSE s

RECURSIVE RStrip(_, _)
RStrip(s, chars) ==
    IF s # << >> /\ Last(s) \in chars
    THEN RStrip(SubSeq(s, 1, Len(s) - 1), chars)
    ELSE s

Strip(s, chars) == RStrip(LStrip(s, chars), chars)

Digits == {"0", "1", "2", "3", "4", "5", "6", "7", "8", "9"}

DigitValue(d) ==
    CASE d = "0" -> 0 [] d = "1" -> 1 [] d = "2" -> 2 [] d = "3" -> 3
      [] d = "4" -> 4 [] d = "5" -> 5 [] d = "6" -> 6 [] d = "7" -> 7
      [] d = "8" -> 8 [] d = "9" -> 9

\* the value of a sequence of decimal digits
RECURSIVE DecimalValue(_)
DecimalValue(s) ==
    IF s = << >> THEN 0
    ELSE 10 * DecimalValue(SubSeq(s, 1, Len(s) - 1)) + DigitValue(Last(s))

IsDecimal(s) == s # << >> /\ \A i \in 1..Len(s) : s[i] \in Digits

-----------------------------------------------------------------------------
(* metadata_dict, whose iteration order the normalizer depends on: an     *)
(* insertion-ordered dict, as a sequence of entries [k, v] with distinct   *)
(* keys.  Every other dict is a function from keys to values.              *)

ODKeys(md) == {md[i].k : i \in 1..Len(md)}

ODIndex(md, k) == CHOOSE i \in 1..Len(md) : md[i].k = k

ODGet(md, k) == md[ODIndex(md, k)].v

\* metadata_dict.setdefault(k, v): an existing key keeps its first value
ODSetKeepingFirst(md, k, v) ==
    IF k \in ODKeys(md) THEN md ELSE Append(md, [k |-> k, v |-> v])

\* md[k] = v: an existing key keeps its place, a new key goes last
ODSet(md, k, v) ==
    IF k \in ODKeys(md)
    THEN [md EXCEPT ![ODIndex(md, k)] = [k |-> k, v |-> v]]
    ELSE Append(md, [k |-> k, v |-> v])

-----------------------------------------------------------------------------
(* Metadata normalizer: nucleai/simdb/metadata.py *)

\* CompositionMetadata: its declared fields, by type (metadata.py:39-65)
CompositionMetadata ==
    [f \in {
        <<"argon">>, <<"beryllium">>, <<"carbon">>, <<"deuterium">>,
        <<"deuterium", "_", "tritium">>, <<"helium", "_", "3">>,
        <<"helium", "_", "4">>, <<"hydrogen">>, <<"krypton">>, <<"neon">>,
        <<"nitrogen">>, <<"oxygen">>, <<"tritium">>, <<"tungsten">>,
        <<"xenon">>, <<"z", "_", "effective">>
    } |-> "float"]

\* IDSPropertiesMetadata: its declared fields, by type (metadata.py:68-88)
IDSPropertiesMetadata ==
    [f \in {
        <<"comment">>, <<"creation", "_", "date">>, <<"provider">>,
        <<"version", "_", "put", "_", "data", "_", "dictionary">>,
        <<"version", "_", "put", "_", "access", "_", "layer">>,
        <<"version", "_", "put", "_", "access", "_", "layer", "_", "language">>,
        <<"provenance", "_", "node", "_", "reference", "_", "name">>
    } |-> "str"] @@
    [f \in {
        <<"homogeneous", "_", "time">>
    } |-> "int"]

\* GlobalQuantitiesMetadata: its declared fields, by type (metadata.py:91-123)
GlobalQuantitiesMetadata ==
    [f \in {
        <<"b", "0", "_", "source">>, <<"beta", "_", "pol", "_", "source">>,
        <<"beta", "_", "tor", "_", "source">>,
        <<"beta", "_", "tor", "_", "norm", "_", "source">>,
        <<"current", "_", "bootstrap", "_", "source">>,
        <<"current", "_", "non", "_", "inductive", "_", "source">>,
        <<"energy", "_", "diamagnetic", "_", "source">>,
        <<"energy", "_", "thermal", "_", "source">>,
        <<"h", "_", "factor", "_", "source">>, <<"ip", "_", "source">>,
        <<"li", "_", "source">>,
        <<"power", "_", "radiated", "_", "inside", "_", "separatrix", "_", "source">>,
        <<"power", "_", "radiated", "_", "total", "_", "source">>,
        <<"q", "_", "9", "5", "_", "source">>, <<"r", "0", "_", "source">>,
        <<"tau", "_", "energy", "_", "source">>,
        <<"v", "_", "loop", "_", "source">>
    } |-> "str"]

\* HeatingCurrentDriveMetadata: its declared fields, by type (metadata.py:126-155)
HeatingCurrentDriveMetadata ==
    [f \in {
        <<"ec", "_", "0", "_", "power", "_", "source">>,
        <<"ic", "_", "0", "_", "power", "_", "source">>,
        <<"nbi", "_", "0", "_", "power", "_", "source">>,
        <<"nbi", "_", "1", "_", "power", "_", "source">>,
        <<"lh", "_", "0", "_", "power", "_", "source">>
    } |-> "str"] @@
    [f \in {
        <<"nbi", "_", "0", "_", "angle">>,
        <<"nbi", "_", "0", "_", "voltage">>,
        <<"nbi", "_", "1", "_", "angle">>, <<"nbi", "_", "1", "_", "voltage">>
    } |-> "float"] @@
    [f \in {
        <<"nbi", "_", "0", "_", "direction">>,
        <<"nbi", "_", "1", "_", "direction">>
    } |-> "int"]

\* BoundaryMetadata: its declared fields, by type (metadata.py:158-175)
BoundaryMetadata ==
    [f \in {
        <<"strike", "_", "point", "_", "inner", "_", "r", "_", "source">>,
        <<"strike", "_", "point", "_", "inner", "_", "z", "_", "source">>,
        <<"strike", "_", "point", "_", "outer", "_", "r", "_", "source">>,
        <<"strike", "_", "point", "_", "outer", "_", "z", "_", "source">>,
        <<"type", "_", "source">>, <<"x", "_", "point", "_", "source">>
    } |-> "str"]

\* CodeMetadata: its declared fields, by type (metadata.py:178-201)
CodeMetadata ==
    [f \in {
        <<"commit">>, <<"description">>, <<"repository">>,
        <<"library", "_", "0", "_", "commit">>,
        <<"library", "_", "0", "_", "name">>,
        <<"library", "_", "0", "_", "repository">>,
        <<"library", "_", "0", "_", "version">>,
        <<"library", "_", "1", "_", "commit">>,
        <<"library", "_", "1", "_", "name">>,
        <<"library", "_", "1", "_", "repository">>,
        <<"library", "_", "1", "_", "version">>
    } |-> "str"]

\* pydantic (lax mode) validation of one optional scalar field
FieldAccepts(type, x) ==
    CASE x.t = "none" -> TRUE
      [] type = "str" -> x.t = "str"
      [] OTHER -> x.t = "num" \/ (x.t = "str" /\ IsDecimal(x.v))

FieldValue(type, x) ==
    IF type # "str" /\ x.t = "str" THEN PyNum(DecimalValue(x.v)) ELSE x

\* Model(**kwargs) for a category sub-record: undeclared names are ignored,
\* a declared name with a value of the wrong type raises ValidationError
BuildCategory(c, schema, kwargs) ==
    IF \E f \in DOMAIN kwargs \cap DOMAIN schema : ~FieldAccepts(schema[f], kwargs[f])
    THEN Raise("ValidationError")
    ELSE Ok(PyModel(c, [f \in DOMAIN schema |->
                IF f \in DOMAIN kwargs THEN FieldValue(schema[f], kwargs[f])
                ELSE PyNone]))

\* metadata.py:268-273
CompositionMatch(key) == StartsWith(key, <<"composition", ".">>) /\ EndsWith(key, <<".", "value">>)
CompositionField(key) == Split(key, ".")[2]

\* metadata.py:277-282
IdsPropertiesMatch(key) == StartsWith(key, <<"ids", "_", "properties", ".">>)
IdsPropertiesField(key) == Replace(Replace(key, <<"ids", "_", "properties", ".">>, << >>), <<".">>, <<"_">>)

\* metadata.py:286-291
GlobalQuantitiesMatch(key) ==
    StartsWith(key, <<"global", "_", "quantities", ".">>) /\ EndsWith(key, <<".", "source">>)
GlobalQuantitiesField(key) == Split(key, ".")[2] \o <<"_", "source">>

\* metadata.py:295-309
HeatingParts(key) == Split(Replace(key, <<"heating", "_", "current", "_", "drive", ".">>, << >>), ".")
HeatingMatch(key) ==
    StartsWith(key, <<"heating", "_", "current", "_", "drive", ".">>) /\ Find(HeatingParts(key)[1], "[") # 0
HeatingField(key) ==
    LET parts == HeatingParts(key)
        device == Split(parts[1], "[")[1]
        index == Split(Split(parts[1], "[")[2], "]")[1]
        field == IF Len(parts) > 1 THEN parts[2] ELSE <<"power">>
    IN  IF field = <<"source">>
        THEN device \o <<"_">> \o index \o <<"_", "power", "_", "source">>
        ELSE device \o <<"_">> \o index \o <<"_">> \o field

\* metadata.py:313-318
BoundaryMatch(key) == StartsWith(key, <<"boundary", ".">>) /\ EndsWith(key, <<".", "source">>)
BoundaryField(key) ==
    Replace(Replace(Replace(key, <<"boundary", ".">>, << >>), <<".", "source">>, << >>), <<".">>, <<"_">>)
        \o <<"_", "source">>

\* metadata.py:322-329
CodeMatch(key) == StartsWith(key, <<"code", ".">>) /\ key \notin {<<"code", ".", "name">>, <<"code", ".", "version">>}
CodeField(key) ==
    Replace(Replace(Replace(Replace(key, <<"code", ".">>, << >>),
        <<"[">>, <<"_">>), <<"]">>, << >>), <<".">>, <<"_">>)

\* the pass of from_metadata_dict that fills category c: its key test and
\* its field name
PassMatch(c, key) ==
    CASE c = "CompositionMetadata" -> CompositionMatch(key)
      [] c = "IDSPropertiesMetadata" -> IdsPropertiesMatch(key)
      [] c = "GlobalQuantitiesMetadata" -> GlobalQuantitiesMatch(key)
      [] c = "HeatingCurrentDriveMetadata" -> HeatingMatch(key)
      [] c = "BoundaryMetadata" -> BoundaryMatch(key)
      [] c = "CodeMetadata" -> CodeMatch(key)

PassField(c, key) ==
    CASE c = "CompositionMetadata" -> CompositionField(key)
      [] c = "IDSPropertiesMetadata" -> IdsPropertiesField(key)
      [] c = "GlobalQuantitiesMetadata" -> GlobalQuantitiesField(key)
      [] c = "HeatingCurrentDriveMetadata" -> HeatingField(key)
      [] c = "BoundaryMetadata" -> BoundaryField(key)
      [] c = "CodeMetadata" -> CodeField(key)

\* One pass of from_metadata_dict over metadata_dict.items(): the dict
\* {field(key): value} over the keys that match, a later key overwriting an
\* earlier one that maps to the same field.
PassData(md, c) ==
    LET idx == {i \in 1..Len(md) : PassMatch(c, md[i].k)}
        last(f) == CHOOSE i \in idx :
                       /\ PassField(c, md[i].k) = f
                       /\ \A j \in idx : PassField(c, md[j].k) = f => j <= i
    IN  [f \in {PassField(c, md[i].k) : i \in idx} |-> md[last(f)].v]

\* The category sub-record of one pass: absent (None) when the pass found
\* nothing, else the validated sub-record
CategoryAlwaysBuilt(c, schema, kwargs) == BuildCategory(c, schema, kwargs)
Category(c, schema, kwargs) ==
    IF DOMAIN kwargs = {} THEN Ok(PyNone) ELSE BuildCategory(c, schema, kwargs)

\* SimulationMetadata.from_metadata_dict
from_metadata_dict(md) ==
    LET composition == Category("CompositionMetadata", CompositionMetadata,
            PassData(md, "CompositionMetadata"))
        ids_properties == Category("IDSPropertiesMetadata", IDSPropertiesMetadata,
            PassData(md, "IDSPropertiesMetadata"))
        global_quantities == Category("GlobalQuantitiesMetadata", GlobalQuantitiesMetadata,
            PassData(md, "GlobalQuantitiesMetadata"))
        heating == Category("HeatingCurrentDriveMetadata", HeatingCurrentDriveMetadata,
            PassData(md, "HeatingCurrentDriveMetadata"))
        boundary == Category("BoundaryMetadata", BoundaryMetadata,
            PassData(md, "BoundaryMetadata"))
        code == Category("CodeMetadata", CodeMetadata,
            PassData(md, "CodeMetadata"))
        scalar(k) == IF k \in ODKeys(md) THEN ODGet(md, k) ELSE PyNone
        scalars == {<<"datetime">>, <<"configuration", ".", "source">>, <<"configuration", ".", "value">>}
    IN  IF ~(composition.ok /\ ids_properties.ok /\ global_quantities.ok
                /\ heating.ok /\ boundary.ok /\ code.ok)
        THEN Raise("ValidationError")
        ELSE IF \E k \in scalars : scalar(k).t \notin {"none", "str"}
        THEN Raise("ValidationError")
        ELSE Ok(PyModel("SimulationMetadata",
                   (<<"datetime">> :> scalar(<<"datetime">>))
                @@ (<<"composition">> :> composition.v)
                @@ (<<"ids", "_", "properties">> :> ids_properties.v)
                @@ (<<"global", "_", "quantities">> :> global_quantities.v)
                @@ (<<"heating", "_", "current", "_", "drive">> :> heating.v)
                @@ (<<"boundary">> :> boundary.v)
                @@ (<<"code">> :> code.v)
                @@ (<<"configuration", "_", "source">> :> scalar(<<"configuration", ".", "source">>))
                @@ (<<"configuration", "_", "value">> :> scalar(<<"configuration", ".", "value">>))))

-----------------------------------------------------------------------------
(* Simulation records: nucleai/simdb/models.py *)

\* SimulationSummary.status: Literal["passed", "failed", "pending"]
StatusValues == {<<"passed">>, <<"failed">>, <<"pending">>}

\* parse_uuid keeping the mapping the API sent
parse_uuid_keeping_mapping(value) == value

\* SimulationSummary.parse_uuid / DataObject.parse_uuid (mode="before")
parse_uuid(value) ==
    IF value.t = "dict" /\ <<"hex">> \in DOMAIN value.v
    THEN value.v[<<"hex">>]
    ELSE value

\* [s.strip() for s in value.split(",")]
StripEach(parts) == [i \in 1..Len(parts) |-> PyStr(Strip(parts[i], {" "}))]

\* parse_ids_string returning an empty list where the code returns None
parse_ids_string_empty_list(value) ==
    IF value.t = "str"
    THEN LET stripped == Strip(value.v, {"[", "]"})
         IN  IF stripped # << >>
             THEN PyList(StripEach(Split(stripped, ",")))
             ELSE PyList(<< >>)
    ELSE value

\* SimulationSummary.parse_ids_string (mode="before")
parse_ids_string(value) ==
    IF value.t = "str"
    THEN LET stripped == Strip(value.v, {"[", "]"})
         IN  IF stripped # << >>
             THEN PyList(StripEach(Split(stripped, ",")))
             ELSE PyNone
    ELSE value

\* The flat dict built from the metadata array (models.py:385-391), or the
\* exception raised while iterating it.  items is data["metadata"].
RECURSIVE FlattenItems(_, _)
FlattenItems(items, md) ==
    IF items = << >> THEN Ok(md)
    ELSE LET item == items[1] IN
         IF item.t # "dict" THEN Raise("AttributeError")   \* item.get
         ELSE LET element == Get(item.v, <<"element">>, EmptyStr)
                  value == Get(item.v, <<"value">>, PyNone)
              IN  IF Truthy(element) /\ value.t # "none"
                  THEN IF element.t \in {"list", "dict"}
                       THEN Raise("TypeError")              \* unhashable key
                       ELSE IF element.t # "str"
                       THEN Raise("AttributeError")         \* key.startswith
                       ELSE FlattenItems(Tail(items), ODSet(md, element.v, value))
                  ELSE FlattenItems(Tail(items), md)

\* the metadata loop reading item["element"] and item["value"], which a
\* malformed entry does not have
FlattenMetadataRejectingMalformed(m) ==
    IF m.t # "list" THEN Raise("TypeError")
    ELSE IF \E i \in 1..Len(m.v) :
               ~({<<"element">>, <<"value">>} \subseteq DOMAIN m.v[i].v)
    THEN Raise("KeyError")
    ELSE FlattenItems(m.v, << >>)

\* for item in data["metadata"]: what the loop does for each type of value
FlattenMetadata(m) ==
    CASE m.t = "list" -> FlattenItems(m.v, << >>)
      [] m.t = "dict" -> IF DOMAIN m.v = {} THEN Ok(<< >>) ELSE Raise("AttributeError")
      [] m.t = "str" -> IF m.v = << >> THEN Ok(<< >>) ELSE Raise("AttributeError")
      [] m.t = "model" -> Raise("AttributeError")   \* iterates (name, value) tuples
      [] OTHER -> Raise("TypeError")                \* None, number: not iterable

\* API field name -> model field name (models.py:409-414)
FieldMapping ==
       (<<"status">> :> <<"status">>)
    @@ (<<"description">> :> <<"description">>)
    @@ (<<"uploaded", "_", "by">> :> <<"author", "_", "email">>)
    @@ (<<"ids">> :> <<"ids", "_", "types">>)

\* TransformedWith with "passed" as the default of a missing status
TransformedWithPassedDefault(d, md, meta) ==
    LET has(k) == k \in ODKeys(md)
        copied == [k \in {<<"uuid">>, <<"alias">>, <<"inputs">>, <<"outputs">>}
                          \cap DOMAIN d |-> d[k]]
        machine == IF has(<<"machine">>) THEN ODGet(md, <<"machine">>) ELSE EmptyStr
        code ==
            IF has(<<"code", ".", "name">>)
            THEN PyDict(
                   (<<"name">> :> ODGet(md, <<"code", ".", "name">>))
                @@ (IF has(<<"code", ".", "version">>)
                    THEN <<"version">> :> ODGet(md, <<"code", ".", "version">>)
                    ELSE EmptyMap))
            ELSE PyDict(<<"name">> :> EmptyStr)
        mapped == [f \in {FieldMapping[a] : a \in DOMAIN FieldMapping \cap ODKeys(md)} |->
                      ODGet(md, CHOOSE a \in DOMAIN FieldMapping : FieldMapping[a] = f)]
        defaults == (<<"description">> :> EmptyStr) @@ (<<"status">> :> W("passed"))
    IN  IF ~meta.ok THEN meta
        ELSE Ok(PyDict(copied
                    @@ (<<"machine">> :> machine)
                    @@ (<<"code">> :> code)
                    @@ mapped
                    @@ (<<"metadata">> :> meta.v)
                    @@ defaults))

\* TransformedWith putting code.version in the code info whether or not
\* code.name is present
TransformedWithUnnamedVersion(d, md, meta) ==
    LET has(k) == k \in ODKeys(md)
        copied == [k \in {<<"uuid">>, <<"alias">>, <<"inputs">>, <<"outputs">>}
                          \cap DOMAIN d |-> d[k]]
        machine == IF has(<<"machine">>) THEN ODGet(md, <<"machine">>) ELSE EmptyStr
        code ==
            PyDict(
                   (<<"name">> :> IF has(<<"code", ".", "name">>)
                                  THEN ODGet(md, <<"code", ".", "name">>) ELSE EmptyStr)
                @@ (IF has(<<"code", ".", "version">>)
                    THEN <<"version">> :> ODGet(md, <<"code", ".", "version">>)
                    ELSE EmptyMap))
        mapped == [f \in {FieldMapping[a] : a \in DOMAIN FieldMapping \cap ODKeys(md)} |->
                      ODGet(md, CHOOSE a \in DOMAIN FieldMapping : FieldMapping[a] = f)]
        defaults == (<<"description">> :> EmptyStr) @@ (<<"status">> :> W("pending"))
    IN  IF ~meta.ok THEN meta
        ELSE Ok(PyDict(copied
                    @@ (<<"machine">> :> machine)
                    @@ (<<"code">> :> code)
                    @@ mapped
                    @@ (<<"metadata">> :> meta.v)
                    @@ defaults))

\* The body of transform_api_response once data is a dict with a "metadata"
\* key, the array is flattened into md (models.py:377-438) and meta is the
\* outcome of SimulationMetadata.from_metadata_dict(md) (models.py:420)
TransformedWith(d, md, meta) ==
    LET has(k) == k \in ODKeys(md)
        copied == [k \in {<<"uuid">>, <<"alias">>, <<"inputs">>, <<"outputs">>}
                          \cap DOMAIN d |-> d[k]]
        machine == IF has(<<"machine">>) THEN ODGet(md, <<"machine">>) ELSE EmptyStr
        code ==
            IF has(<<"code", ".", "name">>)
            THEN PyDict(
                   (<<"name">> :> ODGet(md, <<"code", ".", "name">>))
                @@ (IF has(<<"code", ".", "version">>)
                    THEN <<"version">> :> ODGet(md, <<"code", ".", "version">>)
                    ELSE EmptyMap))
            ELSE PyDict(<<"name">> :> EmptyStr)
        mapped == [f \in {FieldMapping[a] : a \in DOMAIN FieldMapping \cap ODKeys(md)} |->
                      ODGet(md, CHOOSE a \in DOMAIN FieldMapping : FieldMapping[a] = f)]
        defaults == (<<"description">> :> EmptyStr) @@ (<<"status">> :> W("pending"))
    IN  IF ~meta.ok THEN meta
        ELSE Ok(PyDict(copied
                    @@ (<<"machine">> :> machine)
                    @@ (<<"code">> :> code)
                    @@ mapped
                    @@ (<<"metadata">> :> meta.v)
                    @@ defaults))

Transformed(d, md) == TransformedWith(d, md, from_metadata_dict(md))

\* transform_api_response after the metadata loop (models.py:393-438); flat
\* is the outcome of the loop
TransformFlattened(d, flat) ==
    IF ~flat.ok THEN flat
    ELSE Transformed(d,
             IF <<"datetime">> \in DOMAIN d
             THEN ODSet(flat.v, <<"datetime">>, d[<<"datetime">>])
             ELSE flat.v)

\* SimulationSummary.transform_api_response (model_validator, mode="before")
transform_api_response(data) ==
    IF data.t # "dict" THEN Ok(data)
    ELSE IF <<"metadata">> \notin DOMAIN data.v THEN Ok(data)
    ELSE TransformFlattened(data.v, FlattenMetadata(data.v[<<"metadata">>]))

\* an Optional[str] field
IsOptStr(x) == x.t \in {"none", "str"}

\* pydantic validation of a CodeInfo field (models.py:256-257)
ValidateCodeInfo(x) ==
    CASE x.t = "model" /\ x.cls = "CodeInfo" -> Ok(x)
      [] x.t = "dict" ->
            LET version == Get(x.v, <<"version">>, PyNone) IN
            IF /\ <<"name">> \in DOMAIN x.v
               /\ x.v[<<"name">>].t = "str"
               /\ IsOptStr(version)
            THEN Ok(PyModel("CodeInfo",
                     (<<"name">> :> x.v[<<"name">>]) @@ (<<"version">> :> version)))
            ELSE Raise("ValidationError")
      [] OTHER -> Raise("ValidationError")

\* pydantic validation of one DataObject (models.py:67-79)
ValidateDataObject(x) ==
    CASE x.t = "model" /\ x.cls = "DataObject" -> Ok(x)
      [] x.t = "dict" ->
            LET type == Get(x.v, <<"type">>, PyNone)
                checksum == Get(x.v, <<"checksum">>, PyNone)
                datetime == Get(x.v, <<"datetime">>, PyNone)
            IN  IF /\ {<<"uuid">>, <<"uri">>} \subseteq DOMAIN x.v
                   /\ parse_uuid(x.v[<<"uuid">>]).t = "str"
                   /\ x.v[<<"uri">>].t = "str"
                   /\ type \in {PyNone, W("FILE"), W("IMAS")}
                   /\ IsOptStr(checksum) /\ IsOptStr(datetime)
                THEN Ok(PyModel("DataObject",
                         (<<"uuid">> :> parse_uuid(x.v[<<"uuid">>]))
                      @@ (<<"uri">> :> x.v[<<"uri">>])
                      @@ (<<"type">> :> type)
                      @@ (<<"checksum">> :> checksum)
                      @@ (<<"datetime">> :> datetime)))
                ELSE Raise("ValidationError")
      [] OTHER -> Raise("ValidationError")

\* a list[DataObject] field (models.py:536-537)
ValidateDataObjects(x) ==
    IF x.t # "list" THEN Raise("ValidationError")
    ELSE IF \E i \in 1..Len(x.v) : ~ValidateDataObject(x.v[i]).ok
    THEN Raise("ValidationError")
    ELSE Ok(PyList([i \in 1..Len(x.v) |-> ValidateDataObject(x.v[i]).v]))

\* Simulation.extract_imas_uri (model_validator, mode="after")
extract_imas_uri(imas_uri, outputs) ==
    LET imas == {i \in 1..Len(outputs.v) : outputs.v[i].v[<<"type">>] = W("IMAS")} IN
    IF ~Truthy(imas_uri) /\ Truthy(outputs) /\ imas # {}
    THEN outputs.v[CHOOSE i \in imas : \A j \in imas : i <= j].v[<<"uri">>]
    ELSE imas_uri

\* The field validation of SimulationSummary / Simulation that follows the
\* "before" validator (models.py:309-329, 331-357, 535-551); d is a dict
ValidateFields(c, d) ==
    LET field(k, default) == Get(d, k, default)
        uuid == parse_uuid(field(<<"uuid">>, PyNone))
        code == ValidateCodeInfo(field(<<"code">>, PyNone))
        author_email == field(<<"author", "_", "email">>, PyNone)
        ids_types == parse_ids_string(field(<<"ids", "_", "types">>, PyNone))
        metadata == field(<<"metadata">>, PyNone)
        imas_uri == field(<<"imas", "_", "uri">>, EmptyStr)
        inputs == ValidateDataObjects(field(<<"inputs">>, PyList(<< >>)))
        outputs == ValidateDataObjects(field(<<"outputs">>, PyList(<< >>)))
        required == {<<"uuid">>, <<"alias">>, <<"machine">>, <<"code">>,
                     <<"description">>, <<"status">>}
        summary_ok ==
            /\ required \subseteq DOMAIN d
            /\ uuid.t = "str"
            /\ \A k \in {<<"alias">>, <<"machine">>, <<"description">>} : d[k].t = "str"
            /\ code.ok
            /\ d[<<"status">>].t = "str" /\ d[<<"status">>].v \in StatusValues
            /\ IsOptStr(author_email)
            /\ \/ ids_types.t = "none"
               \/ /\ ids_types.t = "list"
                  /\ \A i \in 1..Len(ids_types.v) : ids_types.v[i].t = "str"
            \* the "before" validator never leaves a dict here
            /\ \/ metadata.t = "none"
               \/ metadata.t = "model" /\ metadata.cls = "SimulationMetadata"
        summary ==
               (<<"uuid">> :> uuid)
            @@ (<<"alias">> :> d[<<"alias">>])
            @@ (<<"machine">> :> d[<<"machine">>])
            @@ (<<"code">> :> code.v)
            @@ (<<"description">> :> d[<<"description">>])
            @@ (<<"status">> :> d[<<"status">>])
            @@ (<<"author", "_", "email">> :> author_email)
            @@ (<<"ids", "_", "types">> :> ids_types)
            @@ (<<"metadata">> :> metadata)
    IN  IF ~summary_ok THEN Raise("ValidationError")
        ELSE IF c = "SimulationSummary" THEN Ok(PyModel(c, summary))
        ELSE IF ~(imas_uri.t = "str" /\ inputs.ok /\ outputs.ok)
        THEN Raise("ValidationError")
        ELSE Ok(PyModel(c, summary
                    @@ (<<"imas", "_", "uri">> :> extract_imas_uri(imas_uri, outputs.v))
                    @@ (<<"inputs">> :> inputs.v)
                    @@ (<<"outputs">> :> outputs.v)))

\* cls.model_validate(data), which is also what cls(**data) and
\* from_api_response run (models.py:440-470, 585-606)
ValidateTransformed(c, t) ==
    IF ~t.ok THEN t
    ELSE IF t.v.t = "model" /\ t.v.cls = c THEN t
    ELSE IF t.v.t # "dict" THEN Raise("ValidationError")
    ELSE ValidateFields(c, t.v.v)

model_validate(c, data) == ValidateTransformed(c, transform_api_response(data))

\* pydantic's BaseModel.model_dump(exclude_none=...)
RECURSIVE model_dump(_, _)
model_dump(x, exclude_none) ==
    CASE x.t = "model" ->
            PyDict([k \in {f \in DOMAIN x.v : ~(exclude_none /\ x.v[f].t = "none")} |->
                       model_dump(x.v[k], exclude_none)])
      [] x.t = "list" -> PyList([i \in 1..Len(x.v) |-> model_dump(x.v[i], exclude_none)])
      [] OTHER -> x

-----------------------------------------------------------------------------
(* The access URI as parsed by the code: ImasUri.parse, simdb/models.py *)

\* the scheme of an IMAS URI, with its colon
SchemePrefix == <<"imas", ":">>

\* the index of the first token of s that is in set ds, or Len(s) + 1
RECURSIVE FirstOf(_, _, _)
FirstOf(s, ds, i) ==
    IF i > Len(s) \/ s[i] \in ds THEN i ELSE FirstOf(s, ds, i + 1)

\* the characters urlsplit allows in a scheme after the first letter
IsSchemeChar(tok) == tok \notin {":", "/", "?", "#", "&", "=", "_", "[", "]", ",", " "}
IsWord(tok) == IsSchemeChar(tok) /\ tok \notin Digits \cup {".", "-", "+"}

\* urllib.parse.urlparse(uri): scheme, netloc, path, query, fragment
\* (models.py:142; "imas" takes no ;params)
urlparse(url) ==
    LET colon == Find(url, ":")
        has_scheme == /\ colon > 1
                      /\ IsWord(url[1])
                      /\ \A i \in 1..(colon - 1) : IsSchemeChar(url[i])
        scheme == IF has_scheme THEN SubSeq(url, 1, colon - 1) ELSE << >>
        rest == IF has_scheme THEN SubSeq(url, colon + 1, Len(url)) ELSE url
        has_netloc == Len(rest) >= 2 /\ rest[1] = "/" /\ rest[2] = "/"
        delim == FirstOf(rest, {"/", "?", "#"}, 3)
        netloc == IF has_netloc THEN SubSeq(rest, 3, delim - 1) ELSE << >>
        rest2 == IF has_netloc THEN SubSeq(rest, delim, Len(rest)) ELSE rest
        hash == FirstOf(rest2, {"#"}, 1)
        fragment == SubSeq(rest2, hash + 1, Len(rest2))
        rest3 == SubSeq(rest2, 1, hash - 1)
        qmark == FirstOf(rest3, {"?"}, 1)
    IN  [scheme |-> scheme,
         netloc |-> netloc,
         path |-> SubSeq(rest3, 1, qmark - 1),
         query |-> SubSeq(rest3, qmark + 1, Len(rest3)),
         fragment |-> fragment]

\* urllib.parse.parse_qs(query).get(name, [None])[0]: the value of the first
\* name=value pair with that name and a non-blank value (models.py:143-164)
QueryGet(query, name) ==
    LET pairs == Split(query, "&")
        hits == {i \in 1..Len(pairs) :
                    LET eq == Find(pairs[i], "=") IN
                    /\ eq # 0
                    /\ SubSeq(pairs[i], 1, eq - 1) = name
                    /\ eq < Len(pairs[i])}
    IN  IF hits = {} THEN PyNone
        ELSE LET i == CHOOSE h \in hits : \A j \in hits : h <= j
             IN  PyStr(SubSeq(pairs[i], Find(pairs[i], "=") + 1, Len(pairs[i])))

\* Python's int(s) for a str: optional sign, decimal digits, single
\* underscores between digits; anything else raises ValueError
IntLiteral(s) ==
    LET body == IF s # << >> /\ s[1] \in {"-", "+"} THEN Tail(s) ELSE s
        digits == SelectSeq(body, LAMBDA c : c # "_")
        ok == /\ body # << >>
              /\ body[1] \in Digits /\ Last(body) \in Digits
              /\ \A i \in 1..Len(body) :
                    \/ body[i] \in Digits
                    \/ body[i] = "_" /\ body[i + 1] # "_"
    IN  IF ~ok THEN Raise("ValueError")
        ELSE Ok(IF s[1] = "-" THEN 0 - DecimalValue(digits) ELSE DecimalValue(digits))

\* urlparse(...).hostname (models.py:153)
Hostname(netloc) ==
    LET hostinfo == Last(Split(netloc, "@"))
        host == Split(hostinfo, ":")[1]
    IN  IF host = << >> THEN PyNone ELSE PyStr(host)

\* urlparse(...).port (models.py:154): raises ValueError unless the port is
\* decimal digits in 0..65535
Port(netloc) ==
    LET hostinfo == Last(Split(netloc, "@"))
        colon == Find(hostinfo, ":")
        port == SubSeq(hostinfo, colon + 1, Len(hostinfo))
    IN  IF colon = 0 \/ port = << >> THEN Ok(PyNone)
        ELSE IF ~IsDecimal(port) THEN Raise("ValueError")
        ELSE IF DecimalValue(port) > 65535 THEN Raise("ValueError")
        ELSE Ok(PyNum(DecimalValue(port)))

\* is_remote = parsed.netloc != "" (models.py:152)
IsRemoteByUdaPath(p) == LStrip(p.path, {"/"}) = <<"uda">>
IsRemote(p) == p.netloc # << >>

\* shot = int(shot) if shot else None (models.py:167-168)
IntOrNone(x) ==
    IF ~Truthy(x) THEN Ok(PyNone)
    ELSE LET n == IntLiteral(x.v) IN IF n.ok THEN Ok(PyNum(n.v)) ELSE n

\* ImasUri.parse(uri) (models.py:127-182)
parse(uri) ==
    LET p == urlparse(uri)
        q(name) == QueryGet(p.query, name)
        from_path == Split(LStrip(p.path, {"/"}), "?")[1]
        backend == IF ~Truthy(q(<<"backend">>)) /\ p.path # << >>
                   THEN PyStr(from_path)
                   ELSE q(<<"backend">>)
        is_remote == IsRemote(p)
        port == IF is_remote THEN Port(p.netloc) ELSE Ok(PyNone)
        shot == IntOrNone(q(<<"shot">>))
        run == IntOrNone(q(<<"run">>))
    IN  IF ~port.ok THEN port
        ELSE IF ~shot.ok THEN shot
        ELSE IF ~run.ok THEN run
        ELSE Ok([raw |-> uri,
                 backend |-> IF Truthy(backend) THEN backend.v ELSE <<"unknown">>,
                 is_remote |-> is_remote,
                 server |-> IF is_remote THEN Hostname(p.netloc) ELSE PyNone,
                 port |-> port.v,
                 path |-> q(<<"path">>),
                 shot |-> shot.v,
                 run |-> run.v,
                 database |-> q(<<"database">>),
                 user |-> q(<<"user">>),
                 version |-> q(<<"version">>)])

\* ImasUri.__str__ (models.py:184-186)
ImasUri_str_rebuilt(u) ==
    SchemePrefix \o u.backend
        \o (IF u.path = PyNone THEN << >> ELSE <<"?", "path", "=">> \o u.path.v)
ImasUri_str(u) == u.raw

-----------------------------------------------------------------------------
(* The optimizing access URI, nucleai.core.models.ImasUri, which            *)
(* nucleai/imas/loader.py and tests/test_imas/test_uri.py use.  Its source  *)
(* is not part of the tree; it is modelled from its specification.          *)

\* from_string reading every bare path as an HDF5 directory
from_string_bare_hdf5(uri) ==
    IF ~StartsWith(uri, SchemePrefix)
    THEN [original |-> uri,
          backend |-> <<"hdf", "5">>,
          is_remote |-> FALSE, server |-> PyNone, port |-> PyNone,
          path |-> PyStr(uri), shot |-> PyNone, run |-> PyNone,
          database |-> PyNone, user |-> PyNone, version |-> PyNone]
    ELSE
    LET p == urlparse(uri)
        q(name) == QueryGet(p.query, name)
        segment == Split(LStrip(p.path, {"/"}), "/")[1]
        backend == IF q(<<"backend">>) # PyNone THEN q(<<"backend">>).v
                   ELSE IF segment # << >> THEN segment
                   ELSE <<"unknown">>
        is_remote == p.netloc # << >>
        port == Port(p.netloc)
        int_or_null(x) ==
            IF x = PyNone \/ ~IntLiteral(x.v).ok THEN PyNone
            ELSE PyNum(IntLiteral(x.v).v)
    IN  [original |-> uri,
         backend |-> backend,
         is_remote |-> is_remote,
         server |-> IF is_remote THEN Hostname(p.netloc) ELSE PyNone,
         port |-> IF is_remote /\ port.ok THEN port.v ELSE PyNone,
         path |-> q(<<"path">>),
         shot |-> int_or_null(q(<<"shot">>)),
         run |-> int_or_null(q(<<"run">>)),
         database |-> q(<<"database">>),
         user |-> q(<<"user">>),
         version |-> q(<<"version">>)]

\* ImasUri.from_string(uri)
from_string(uri) ==
    IF ~StartsWith(uri, SchemePrefix)
    THEN [original |-> uri,
          backend |-> IF EndsWith(uri, <<".", "nc">>) THEN <<"netcdf">> ELSE <<"hdf", "5">>,
          is_remote |-> FALSE, server |-> PyNone, port |-> PyNone,
          path |-> PyStr(uri), shot |-> PyNone, run |-> PyNone,
          database |-> PyNone, user |-> PyNone, version |-> PyNone]
    ELSE
    LET p == urlparse(uri)
        q(name) == QueryGet(p.query, name)
        segment == Split(LStrip(p.path, {"/"}), "/")[1]
        backend == IF q(<<"backend">>) # PyNone THEN q(<<"backend">>).v
                   ELSE IF segment # << >> THEN segment
                   ELSE <<"unknown">>
        is_remote == p.netloc # << >>
        port == Port(p.netloc)
        int_or_null(x) ==
            IF x = PyNone \/ ~IntLiteral(x.v).ok THEN PyNone
            ELSE PyNum(IntLiteral(x.v).v)
    IN  [original |-> uri,
         backend |-> backend,
         is_remote |-> is_remote,
         server |-> IF is_remote THEN Hostname(p.netloc) ELSE PyNone,
         port |-> IF is_remote /\ port.ok THEN port.v ELSE PyNone,
         path |-> q(<<"path">>),
         shot |-> int_or_null(q(<<"shot">>)),
         run |-> int_or_null(q(<<"run">>)),
         database |-> q(<<"database">>),
         user |-> q(<<"user">>),
         version |-> q(<<"version">>)]

\* file f lies directly under directory dir
DirectlyUnder(f, dir) ==
    /\ StartsWith(f, dir \o <<"/">>)
    /\ Len(f) > Len(dir) + 1
    /\ Find(SubSeq(f, Len(dir) + 2, Len(f)), "/") = 0

\* ImasUri.can_convert_to_local(), on filesystem fs
can_convert_ignoring_remote(u, fs) ==
    IF u.path = PyNone THEN FALSE
    ELSE
    LET path == u.path.v IN
    CASE u.backend = <<"hdf", "5">> ->
            (path \o <<"/", "master", ".", "h", "5">>) \in fs
      [] u.backend = <<"netcdf">> ->
            IF EndsWith(path, <<".", "nc">>) THEN path \in fs
            ELSE \E f \in fs : DirectlyUnder(f, path) /\ EndsWith(f, <<".", "nc">>)
      [] u.backend = <<"ascii">> ->
            \E f \in fs : DirectlyUnder(f, path) /\ EndsWith(f, <<".", "ids">>)
      [] OTHER -> FALSE

can_convert_without_hdf5(u, fs) ==
    IF ~u.is_remote \/ u.path = PyNone THEN FALSE
    ELSE
    LET path == u.path.v IN
    CASE u.backend = <<"netcdf">> ->
            IF EndsWith(path, <<".", "nc">>) THEN path \in fs
            ELSE \E f \in fs : DirectlyUnder(f, path) /\ EndsWith(f, <<".", "nc">>)
      [] u.backend = <<"ascii">> ->
            \E f \in fs : DirectlyUnder(f, path) /\ EndsWith(f, <<".", "ids">>)
      [] OTHER -> FALSE

can_convert_to_local(u, fs) ==
    IF ~u.is_remote \/ u.path = PyNone THEN FALSE
    ELSE
    LET path == u.path.v IN
    CASE u.backend = <<"hdf", "5">> ->
            (path \o <<"/", "master", ".", "h", "5">>) \in fs
      [] u.backend = <<"netcdf">> ->
            IF EndsWith(path, <<".", "nc">>) THEN path \in fs
            ELSE \E f \in fs : DirectlyUnder(f, path) /\ EndsWith(f, <<".", "nc">>)
      [] u.backend = <<"ascii">> ->
            \E f \in fs : DirectlyUnder(f, path) /\ EndsWith(f, <<".", "ids">>)
      [] OTHER -> FALSE

\* ImasUri.to_local(), on filesystem fs: the string returned and whether a
\* warning was logged
to_local_always_warning(u, fs) ==
    IF ~can_convert_to_local(u, fs)
    THEN [result |-> u.original, warned |-> TRUE]
    ELSE [result |-> SchemePrefix \o u.backend \o <<"?", "path", "=">> \o u.path.v,
          warned |-> FALSE]

to_local(u, fs) ==
    IF ~can_convert_to_local(u, fs)
    THEN [result |-> u.original, warned |-> u.is_remote]
    ELSE [result |-> SchemePrefix \o u.backend \o <<"?", "path", "=">> \o u.path.v,
          warned |-> FALSE]

\* ImasUri.__str__(), on filesystem fs
optimized_str_cached(u, fs) ==
    IF call.op = "str" THEN call.result.v.v
    ELSE IF u.is_remote /\ can_convert_to_local(u, fs)
    THEN to_local(u, fs).result
    ELSE u.original

optimized_str(u, fs) ==
    IF u.is_remote /\ can_convert_to_local(u, fs)
    THEN to_local(u, fs).result
    ELSE u.original

-----------------------------------------------------------------------------
(* The SimDB client: SimDBClient._make_request, simdb/client.py *)

\* urllib.parse.urlencode of (key, value) pairs whose characters need no
\* quoting
RECURSIVE urlencode(_)
urlencode(pairs) ==
    IF pairs = << >> THEN << >>
    ELSE pairs[1][1] \o <<"=">> \o pairs[1][2]
         \o (IF Len(pairs) = 1 THEN << >> ELSE <<"&">> \o urlencode(Tail(pairs)))

\* for key, values in params.items(): for value in values: append((key, value))
RECURSIVE ConstraintParams(_)
ConstraintParams(items) ==
    IF items = << >> THEN << >>
    ELSE [i \in 1..Len(items[1].v) |-> <<items[1].k, items[1].v[i]>>]
         \o ConstraintParams(Tail(items))

\* the arguments of client.get in _make_request (client.py:375-386)
GetArguments(endpoint, items) ==
    IF Find(endpoint, "?") # 0
    THEN LET param_string == urlencode(ConstraintParams(items)) IN
         [url |-> IF param_string # << >> THEN endpoint \o <<"&">> \o param_string
                  ELSE endpoint,
          params |-> << >>]
    ELSE [url |-> endpoint, params |-> items]

\* await client.get(...) against a server that behaves as srv: the reply, or
\* the httpx exception raised before any reply arrives
ClientGet(srv, args) ==
    IF srv.kind = "reply"
    THEN Ok([status_code |-> srv.status_code, url |-> args.url, params |-> args.params])
    ELSE Raise(srv.kind)

\* httpx.Response.raise_for_status, for 2xx, 4xx and 5xx replies
raise_for_status(reply) ==
    IF reply.status_code \in 200..299 THEN Ok(reply)
    ELSE [ok |-> FALSE, err |-> "httpx.HTTPStatusError", response |-> reply]

\* _make_request with 5xx replies propagated as they come
MakeRequestPropagating5xx(got) ==
    IF ~got.ok
    THEN IF got.err = "httpx.ConnectError"
         THEN Raise("nucleai.core.exceptions.ConnectionError")
         ELSE got
    ELSE LET raised == raise_for_status(got.v) IN
         IF raised.ok THEN raised
         ELSE IF raised.response.status_code = 401
         THEN Raise("nucleai.core.exceptions.AuthenticationError")
         ELSE Raise(raised.err)

\* the try / except of _make_request (client.py:374-408); got is the outcome
\* of client.get
MakeRequestOutcome(got) ==
    IF ~got.ok
    THEN IF got.err = "httpx.ConnectError"
         THEN Raise("nucleai.core.exceptions.ConnectionError")
         ELSE got
    ELSE LET raised == raise_for_status(got.v) IN
         IF raised.ok THEN raised
         ELSE IF raised.response.status_code = 401
         THEN Raise("nucleai.core.exceptions.AuthenticationError")
         ELSE IF raised.response.status_code >= 500
         THEN Raise("nucleai.core.exceptions.ConnectionError")
         ELSE Raise(raised.err)

\* SimDBClient._make_request(client, endpoint, params, headers)
make_request(srv, endpoint, items) ==
    MakeRequestOutcome(ClientGet(srv, GetArguments(endpoint, items)))

-----------------------------------------------------------------------------
(* Inputs of the record validators *)

Item(element, value) ==
    PyDict((<<"element">> :> PyStr(element)) @@ (<<"value">> :> value))

\* entries of the "metadata" array of a SimDB reply: well-known fields, one
\* category key, an unrecognized status, and the malformed entries: a null
\* value, no element, an empty element name, no value
ApiItems ==
    {Item(<<"status">>, W(x)) : x \in {"passed", "failed", "pending", "running"}}
    \cup {Item(<<"machine">>, W("ITER")),
          Item(<<"code", ".", "name">>, W("METIS")),
          Item(<<"code", ".", "version">>, W("v")),
          Item(<<"description">>, W("baseline")),
          Item(<<"composition", ".", "deuterium", ".", "value">>, PyNum(1)),
          Item(<<"status">>, PyNone),
          PyDict(<<"value">> :> W("ITER")),
          Item(<< >>, W("ITER")),
          PyDict(<<"element">> :> W("machine"))}

MetadataArrays == UNION {[1..n -> ApiItems] : n \in 0..MaxItems}

DataObjects ==
    PyList(<<PyDict((<<"uuid">> :> PyDict(<<"hex">> :> W("o1")))
                 @@ (<<"uri">> :> W("file"))
                 @@ (<<"type">> :> W("FILE"))),
             PyDict((<<"uuid">> :> W("o2"))
                 @@ (<<"uri">> :> W("imas"))
                 @@ (<<"type">> :> W("IMAS")))>>)

\* the optional top-level keys of a reply
ApiExtras ==
    {EmptyMap,
     <<"datetime">> :> W("today"),
     <<"outputs">> :> DataObjects}

\* a SimDB REST reply for one simulation
ApiPayloads ==
    {PyDict((<<"uuid">> :> u) @@ (<<"alias">> :> W("a1"))
            @@ (<<"metadata">> :> PyList(m)) @@ x) :
        u \in {W("u1"), PyDict((<<"_type">> :> W("UUID")) @@ (<<"hex">> :> W("u1")))},
        m \in MetadataArrays,
        x \in ApiExtras}

\* SimulationMetadata() with every field at its default
EmptyMetadata ==
    PyModel("SimulationMetadata",
        [f \in {<<"datetime">>, <<"composition">>, <<"ids", "_", "properties">>,
                <<"global", "_", "quantities">>,
                <<"heating", "_", "current", "_", "drive">>, <<"boundary">>, <<"code">>,
                <<"configuration", "_", "source">>,
                <<"configuration", "_", "value">>} |-> PyNone])

\* keyword arguments of a direct construction, cls(uuid=..., status=...)
Kwargs ==
    {PyDict((<<"uuid">> :> W("u1")) @@ (<<"alias">> :> W("a1"))
            @@ (<<"machine">> :> W("ITER"))
            @@ (<<"code">> :> PyDict(<<"name">> :> W("METIS")))
            @@ (<<"description">> :> W("baseline"))
            @@ (<<"status">> :> W(st)) @@ x) :
        st \in {"passed", "failed", "pending", "running"},
        x \in {EmptyMap,
               <<"metadata">> :> PyNone,
               <<"metadata">> :> EmptyMetadata,
               <<"metadata">> :> PyDict(EmptyMap)}}

Classes == {"SimulationSummary", "Simulation"}

\* DataObject(uuid=..., uri=..., type=...) as a caller writes them
OutputObjects ==
    {PyDict((<<"uuid">> :> W("o1")) @@ (<<"uri">> :> W("file"))
            @@ (<<"type">> :> W("FILE"))),
     PyDict((<<"uuid">> :> W("o2")) @@ (<<"uri">> :> W("imas"))
            @@ (<<"type">> :> W("IMAS"))),
     PyDict((<<"uuid">> :> W("o3")) @@ (<<"uri">> :> W("imas2"))
            @@ (<<"type">> :> W("IMAS"))),
     PyDict((<<"uuid">> :> W("o4")) @@ (<<"uri">> :> W("untyped")))}

OutputLists == UNION {[1..n -> OutputObjects] : n \in 0..MaxOutputs}

\* keyword arguments of Simulation(..., outputs=[...]), with or without an
\* imas_uri of the caller's
SimulationKwargs ==
    {PyDict((<<"uuid">> :> W("u1")) @@ (<<"alias">> :> W("a1"))
            @@ (<<"machine">> :> W("ITER"))
            @@ (<<"code">> :> PyDict(<<"name">> :> W("METIS")))
            @@ (<<"description">> :> W("baseline"))
            @@ (<<"status">> :> W("passed"))
            @@ (<<"outputs">> :> PyList(o)) @@ x) :
        o \in OutputLists,
        x \in {EmptyMap,
               <<"imas", "_", "uri">> :> EmptyStr,
               <<"imas", "_", "uri">> :> W("given"),
               <<"imas", "_", "uri">> :> W("file")}}

-----------------------------------------------------------------------------
(* The record validators as a state machine *)

\* no record, no URI and no metadata_dict yet
SimIdle ==
    /\ model_cls = "SimulationSummary"
    /\ payload = NoValue
    /\ record = NoCall
    /\ dumped = NoValue
    /\ record2 = NoCall

UriIdle ==
    /\ files = {}
    /\ uri_raw = << >>
    /\ parsed = NoCall
    /\ core_uri = NoCall
    /\ call = Idle

MetaIdle ==
    /\ flat_md = << >>
    /\ normalized = NoCall

FieldIdle ==
    /\ validator = "none"
    /\ field_value = NoValue
    /\ validated = NoValue

ClientIdle ==
    /\ http_server = [kind |-> "reply", status_code |-> 200]
    /\ http_request = NoValue
    /\ http_response = NoCall

\* IdsLoader.__init__: self.entry = None; no coroutine has called anything
LoaderIdle ==
    /\ loader_entry = 0
    /\ db_entries = << >>
    /\ imas_lock = "free"
    /\ event_loop = "free"
    /\ task = [t \in {"t1", "t2"} |-> [op |-> "none", pc |-> "idle", on |-> 0]]

-----------------------------------------------------------------------------
(* The SimDB client session set-up: SimDBClient._get_cookies and           *)
(* SimDBClient._detect_api_version, simdb/client.py.  In endpoint URLs the *)
(* letter "v" that follows a "/" is a token of its own, since the code     *)
(* looks for "/v".                                                         *)

\* the cookie cache file: absent, the pickle of a value, or bytes that are
\* no pickle
NoFile == [kind |-> "missing"]
PickleOf(x) == [kind |-> "pickle", v |-> x]
Garbage == [kind |-> "garbage"]

\* pickle.loads(await f.read())
pickle_loads(file) ==
    IF file.kind = "pickle" THEN Ok(file.v) ELSE Raise("pickle.UnpicklingError")

\* httpx.Cookies(cookie_dict): a jar of name -> value pairs
Cookies(x) ==
    IF x.t = "dict" THEN Ok([t |-> "httpx.Cookies", v |-> x.v]) ELSE Raise("TypeError")

\* dict(response.cookies): the name -> value pairs of a jar
CookieDict(c) == PyDict(c.v)

\* get_credentials(): the configured pair, or AuthenticationError when the
\* username or the password is empty
get_credentials(c) ==
    IF c.username = << >> \/ c.password = << >>
    THEN Raise("AuthenticationError")
    ELSE Ok(<<c.username, c.password>>)

\* await client.get("/") against a server whose root behaves as root: the
\* reply, or the httpx exception raised before any reply arrives
GetRoot(root) == IF root.kind = "reply" THEN Ok(root) ELSE Raise(root.kind)

\* response.json()
response_json(reply) ==
    IF reply.body.json THEN Ok(reply.body.data) ELSE Raise("json.JSONDecodeError")

\* the requests of the session set-up, as they are logged
RootRequest(c) == [method |-> "GET", url |-> <<"/">>, cookies |-> c]
PolicyRequest(auth) ==
    [method |-> "POST", url |-> <<"/", "my", ".", "policy">>, auth |-> auth]

\* the block under `if cookies_file.exists():` (client.py:148-173): whether
\* it returns the cached jar, and the requests it issued
CachedCookies(file, site) ==
    IF file.kind = "missing" THEN [valid |-> FALSE, log |-> << >>]
    ELSE IF ~pickle_loads(file).ok THEN [valid |-> FALSE, log |-> << >>]
    ELSE IF ~Cookies(pickle_loads(file).v).ok THEN [valid |-> FALSE, log |-> << >>]
    ELSE [valid |-> /\ GetRoot(site.root).ok
                    /\ response_json(GetRoot(site.root).v).ok,
          cookie_jar |-> Cookies(pickle_loads(file).v).v,
          log |-> <<RootRequest(Cookies(pickle_loads(file).v).v)>>]

\* the authentication of _get_cookies (client.py:175-216) once the cached
\* cookies were found missing or invalid, after the requests of log
Authenticate(cached, file, site, creds, mask) ==
    IF ~get_credentials(creds).ok
    THEN [out |-> get_credentials(creds), log |-> cached.log,
          file |-> file, umask |-> mask]
    ELSE IF site.policy.kind = "httpx.ConnectError"
    THEN [out |-> Raise("nucleai.core.exceptions.ConnectionError"),
          log |-> Append(cached.log, PolicyRequest(get_credentials(creds).v)),
          file |-> file, umask |-> mask]
    ELSE IF site.policy.kind # "reply"
    THEN [out |-> Raise(site.policy.kind),
          log |-> Append(cached.log, PolicyRequest(get_credentials(creds).v)),
          file |-> file, umask |-> mask]
    ELSE IF site.policy.status_code # 200
    THEN [out |-> Raise("AuthenticationError"),
          log |-> Append(cached.log, PolicyRequest(get_credentials(creds).v)),
          file |-> file, umask |-> mask]
    ELSE \* os.umask(0); os.open(..., mode=0o600); f.write(pickle.dumps(...))
         [out |-> Ok(site.policy.cookies),
          log |-> Append(cached.log, PolicyRequest(get_credentials(creds).v)),
          file |-> PickleOf(CookieDict(site.policy.cookies)), umask |-> 0]

\* _get_cookies without the cache: it authenticates on every call
get_cookies_ignoring_cache(file, site, creds, mask) ==
    Authenticate([valid |-> FALSE, log |-> << >>], file, site, creds, mask)

\* await self._get_cookies(): what it returns or raises, the requests it
\* issued, and the cache file and the umask it leaves behind
get_cookies(file, site, creds, mask) ==
    IF CachedCookies(file, site).valid
    THEN [out |-> Ok(CachedCookies(file, site).cookie_jar),
          log |-> CachedCookies(file, site).log,
          file |-> file, umask |-> mask]
    ELSE Authenticate(CachedCookies(file, site), file, site, creds, mask)

\* "/v" in ep
HasSlashV(ep) == \E i \in 1..(Len(ep) - 1) : ep[i] = "/" /\ ep[i + 1] = "v"

\* the code point of a one-character token, and of the first character of a
\* longer one
CharCode(tok) ==
    CASE tok = "." -> 46
      [] tok \in Digits -> 48 + DigitValue(tok)
      [] tok = "v" -> 118
      [] OTHER -> 97

\* a < b for two Python strings whose tokens, where they differ, differ at
\* their first character
RECURSIVE StrLess(_, _)
StrLess(a, b) ==
    IF b = << >> THEN FALSE
    ELSE IF a = << >> THEN TRUE
    ELSE IF a[1] = b[1] THEN StrLess(Tail(a), Tail(b))
    ELSE CharCode(a[1]) < CharCode(b[1])

\* max(versions) of a non-empty list of strings
StrMax(versions) ==
    CHOOSE x \in {versions[i] : i \in 1..Len(versions)} :
        \A i \in 1..Len(versions) : ~StrLess(x, versions[i])

\* [ep.split("/")[-1] for ep in endpoints if "/v" in ep]
RECURSIVE VersionsOf(_)
VersionsOf(endpoints) ==
    IF endpoints = << >> THEN << >>
    ELSE (IF HasSlashV(endpoints[1].v)
          THEN <<Last(Split(endpoints[1].v, "/"))>> ELSE << >>)
         \o VersionsOf(Tail(endpoints))

\* the hardcoded fallback of _detect_api_version
FallbackVersion == <<"v", "1", ".", "2">>

\* data = response.json() after response = await client.get("/")
RootData(site) ==
    IF GetRoot(site.root).ok THEN response_json(GetRoot(site.root).v)
    ELSE GetRoot(site.root)

\* what _detect_api_version returns for data.get("endpoints", []), a list of
\* strings
VersionAmong(endpoints) ==
    IF ~Truthy(endpoints) THEN FallbackVersion
    ELSE IF VersionsOf(endpoints.v) = << >> THEN FallbackVersion
    ELSE StrMax(VersionsOf(endpoints.v))

\* await self._detect_api_version() (client.py:218-244)
detect_api_version(site) ==
    IF ~RootData(site).ok THEN FallbackVersion
    ELSE IF RootData(site).v.t # "dict" THEN FallbackVersion     \* data.get
    ELSE VersionAmong(Get(RootData(site).v.v, <<"endpoints">>, PyList(<< >>)))

\* replies of the server
JsonBody(x) == [json |-> TRUE, data |-> x]
HtmlBody == [json |-> FALSE]
RootReply(code, body) == [kind |-> "reply", status_code |-> code, body |-> body]
PolicyReply(code, c) == [kind |-> "reply", status_code |-> code, cookies |-> c]
Jar(d) == [t |-> "httpx.Cookies", v |-> d]

\* the reply to GET / that lists endpoints
Listing(endpoints) ==
    RootReply(200, JsonBody(PyDict(<<"endpoints">> :> PyList(endpoints))))

\* SimDBClient.__init__ on a fresh account: no cookie cache, the usual umask
\* 0o022, credentials in the settings, a server that lists no endpoint and
\* accepts the credentials
SessionIdle ==
    /\ cookies_file = NoFile
    /\ umask = 18
    /\ credentials = [username |-> <<"user">>, password |-> <<"secret">>]
    /\ simdb_site = [root |-> Listing(<< >>),
                     policy |-> PolicyReply(200, Jar(<<"session">> :> W("new")))]
    /\ session_log = << >>
    /\ session_call = NoValue

InitSim == SimIdle /\ UriIdle /\ MetaIdle /\ FieldIdle /\ ClientIdle /\ LoaderIdle /\ SessionIdle

\* cls.from_api_response(data)
FromApiResponse ==
    /\ payload = NoValue
    /\ \E c \in Classes, p \in ApiPayloads :
        /\ model_cls' = c
        /\ payload' = p
        /\ record' = model_validate(c, p)
    /\ dumped' = NoValue
    /\ record2' = NoCall
    /\ UNCHANGED otherThanSim

\* cls(**kwargs)
Construct ==
    /\ payload = NoValue
    /\ \E c \in Classes, kw \in Kwargs :
        /\ model_cls' = c
        /\ payload' = kw
        /\ record' = model_validate(c, kw)
    /\ dumped' = NoValue
    /\ record2' = NoCall
    /\ UNCHANGED otherThanSim

\* Simulation(..., outputs=[...], imas_uri=...)
ConstructSimulation ==
    /\ payload = NoValue
    /\ \E kw \in SimulationKwargs :
        /\ payload' = kw
        /\ record' = model_validate("Simulation", kw)
    /\ model_cls' = "Simulation"
    /\ dumped' = NoValue
    /\ record2' = NoCall
    /\ UNCHANGED otherThanSim

\* record.model_dump(exclude_none=...)
ModelDump(exclude_none) ==
    /\ record.ok
    /\ dumped = NoValue
    /\ dumped' = model_dump(record.v, exclude_none)
    /\ record2' = NoCall
    /\ UNCHANGED <<model_cls, payload, record>>
    /\ UNCHANGED otherThanSim

\* cls.model_validate(dumped)
Reconstruct ==
    /\ dumped # NoValue
    /\ record2 = NoCall
    /\ record2' = model_validate(model_cls, dumped)
    /\ UNCHANGED <<model_cls, payload, record, dumped>>
    /\ UNCHANGED otherThanSim

\* the caller drops the record; the next call starts afresh
Discard ==
    /\ payload # NoValue
    /\ model_cls' = "SimulationSummary"
    /\ payload' = NoValue
    /\ record' = NoCall
    /\ dumped' = NoValue
    /\ record2' = NoCall
    /\ UNCHANGED otherThanSim

NextSim ==
    \/ FromApiResponse
    \/ Construct
    \/ ConstructSimulation
    \/ \E e \in BOOLEAN : ModelDump(e)
    \/ Reconstruct
    \/ Discard

SpecSim == InitSim /\ [][NextSim]_vars

-----------------------------------------------------------------------------
(* Inputs of the access URI *)

Host == <<"uda", ".", "iter", ".", "org">>

\* scheme, authority and first path segment
UriHeads ==
    { SchemePrefix,
      SchemePrefix \o <<"hdf", "5">>,
      SchemePrefix \o <<"/", "/">> \o Host \o <<"/", "uda">>,
      SchemePrefix \o <<"/", "/">> \o Host \o <<":", "8", "0", "/", "uda">>,
      SchemePrefix \o <<"/", "/", ":", "8", "0", "/", "uda">>,
      SchemePrefix \o <<"/", "/", "/", "uda">> }

DataDir == <<"/", "d">>
NcFile == DataDir \o <<"/", "x", ".", "nc">>

PathParams == { << >>, DataDir, NcFile, <<"/", "n">> }
BackendParams == { << >>, <<"hdf", "5">>, <<"netcdf">>, <<"ascii">>, <<"mdsplus">> }
ShotParams == { << >>, <<"1", "2">>, <<"ab">> }
RunParams == { << >>, <<"2">>, <<"x">> }

\* name=value, or nothing when the parameter is left out
Param(name, value) == IF value = << >> THEN << >> ELSE <<name \o <<"=">> \o value>>

\* "&".join(params), after a "?" when there are any
RECURSIVE JoinParams(_)
JoinParams(params) ==
    IF params = << >> THEN << >>
    ELSE IF Len(params) = 1 THEN params[1]
    ELSE params[1] \o <<"&">> \o JoinParams(Tail(params))

Query(params) == IF params = << >> THEN << >> ELSE <<"?">> \o JoinParams(params)

\* strings without the scheme prefix: a directory, netCDF files with an
\* absolute and a relative path, an HDF5 file, a name that ends in "nc"
\* without the dot
BarePaths ==
    { DataDir, NcFile,
      <<"x", ".", "nc">>,
      DataDir \o <<"/", "m", ".", "h", "5">>,
      DataDir \o <<"/", "xnc">> }

\* URIs whose path has more than one segment, without a backend parameter
DeepPathUris ==
    { SchemePrefix \o <<"/", "/">> \o Host \o <<"/", "uda", "/", "x">>
          \o Query(Param(<<"path">>, DataDir)),
      SchemePrefix \o <<"hdf", "5", "/", "x">> \o Query(Param(<<"path">>, DataDir)) }

Uris ==
    { h \o Query(Param(<<"path">>, pa) \o Param(<<"backend">>, b)
                 \o Param(<<"shot">>, sh) \o Param(<<"run">>, r)) :
        h \in UriHeads, pa \in PathParams, b \in BackendParams,
        sh \in ShotParams, r \in RunParams }
    \cup BarePaths
    \cup DeepPathUris
    \cup { SchemePrefix \o <<"/", "/">> \o Host \o <<"/", "uda">>
               \o Query(Param(<<"path">>, <<"/", "n">>) \o Param(<<"path">>, DataDir)
                        \o Param(<<"backend">>, <<"hdf", "5">>)) }

\* the files that may exist
FileUniverse ==
    { DataDir \o <<"/", "master", ".", "h", "5">>,
      NcFile,
      DataDir \o <<"/", "e", ".", "ids">> }

-----------------------------------------------------------------------------
(* The access URI as a state machine: a URI is parsed once, its methods are *)
(* called any number of times, and files come and go in between.            *)

InitUri == SimIdle /\ UriIdle /\ MetaIdle /\ FieldIdle /\ ClientIdle /\ LoaderIdle /\ SessionIdle

\* ImasUri.parse(uri) and ImasUri.from_string(uri) of one string
Parse ==
    /\ uri_raw = << >>
    /\ \E u \in Uris :
        /\ uri_raw' = u
        /\ parsed' = parse(u)
        /\ core_uri' = Ok(from_string(u))
    /\ call' = Idle
    /\ UNCHANGED files
    /\ UNCHANGED otherThanUri

\* a file appears on the local filesystem
Touch ==
    /\ \E f \in FileUniverse \ files : files' = files \cup {f}
    /\ UNCHANGED <<uri_raw, parsed, core_uri, call>>
    /\ UNCHANGED otherThanUri

\* a file disappears from the local filesystem
Remove ==
    /\ \E f \in files : files' = files \ {f}
    /\ UNCHANGED <<uri_raw, parsed, core_uri, call>>
    /\ UNCHANGED otherThanUri

\* str(uri) of the optimizing URI, as IdsLoader.connect does
Str ==
    /\ core_uri.ok
    /\ call' = [op |-> "str",
                result |-> Ok(PyStr(optimized_str(core_uri.v, files))),
                warned |-> FALSE,
                at |-> files,
                prev |-> IF call.op = "str" THEN call.result ELSE NoCall]
    /\ UNCHANGED <<files, uri_raw, parsed, core_uri>>
    /\ UNCHANGED otherThanUri

\* str(uri) of the URI parsed by ImasUri.parse
RawStr ==
    /\ parsed.ok
    /\ call' = [op |-> "raw_str",
                result |-> Ok(PyStr(ImasUri_str(parsed.v))),
                warned |-> FALSE,
                at |-> files,
                prev |-> NoCall]
    /\ UNCHANGED <<files, uri_raw, parsed, core_uri>>
    /\ UNCHANGED otherThanUri

\* uri.can_convert_to_local()
CanConvertToLocal ==
    /\ core_uri.ok
    /\ call' = [op |-> "can_convert_to_local",
                result |-> Ok(can_convert_to_local(core_uri.v, files)),
                warned |-> FALSE,
                at |-> files,
                prev |-> NoCall]
    /\ UNCHANGED <<files, uri_raw, parsed, core_uri>>
    /\ UNCHANGED otherThanUri

\* uri.to_local()
ToLocal ==
    /\ core_uri.ok
    /\ call' = [op |-> "to_local",
                result |-> Ok(PyStr(to_local(core_uri.v, files).result)),
                warned |-> to_local(core_uri.v, files).warned,
                at |-> files,
                prev |-> NoCall]
    /\ UNCHANGED <<files, uri_raw, parsed, core_uri>>
    /\ UNCHANGED otherThanUri

\* the URI goes out of scope
Release ==
    /\ uri_raw # << >>
    /\ uri_raw' = << >>
    /\ parsed' = NoCall
    /\ core_uri' = NoCall
    /\ call' = Idle
    /\ UNCHANGED files
    /\ UNCHANGED otherThanUri

NextUri ==
    \/ Parse
    \/ Touch
    \/ Remove
    \/ Str
    \/ RawStr
    \/ CanConvertToLocal
    \/ ToLocal
    \/ Release

SpecUri == InitUri /\ [][NextUri]_vars

-----------------------------------------------------------------------------
(* The metadata normalizer as a state machine: a flat metadata_dict is      *)
(* filled key by key and handed to SimulationMetadata.from_metadata_dict.   *)

\* keys of the documented shapes, one per category, and keys beside them
MetaKeys ==
    { <<"composition", ".", "deuterium", ".", "value">>,
      <<"composition", ".", "helium", "_", "4", ".", "value">>,
      <<"composition", ".", "unobtainium", ".", "value">>,
      <<"composition", ".", "deuterium", ".", "extra", ".", "value">>,
      <<"ids", "_", "properties", ".", "creation", "_", "date">>,
      <<"global", "_", "quantities", ".", "ip", ".", "source">>,
      <<"heating", "_", "current", "_", "drive", ".", "nbi", "[", "0", "]", ".",
        "angle", ".", "value">>,
      <<"heating", "_", "current", "_", "drive", ".", "ec", "[", "0", "]", ".",
        "source">>,
      <<"heating", "_", "current", "_", "drive", ".", "nbi", "[", "0", "]", ".",
        "power", ".", "source">>,
      <<"boundary", ".", "type", ".", "source">>,
      <<"code", ".", "commit">>,
      <<"datetime">>,
      <<"configuration", ".", "source">>,
      <<"machine">> }

\* values of a flat metadata_dict: numbers, a word, null
MetaValues == { PyNum(1), PyNum(2), W("high"), PyNone }

\* metadata_dict[key] = value
SetItem ==
    /\ \E key \in MetaKeys, value \in MetaValues :
        /\ Len(ODSet(flat_md, key, value)) <= MaxKeys
        /\ flat_md' = ODSet(flat_md, key, value)
    /\ normalized' = NoCall
    /\ UNCHANGED otherThanMeta

\* SimulationMetadata.from_metadata_dict(metadata_dict)
Normalize ==
    /\ normalized = NoCall
    /\ normalized' = from_metadata_dict(flat_md)
    /\ UNCHANGED flat_md
    /\ UNCHANGED otherThanMeta

\* the mapping and its result go out of scope
ClearMeta ==
    /\ flat_md # << >> \/ normalized # NoCall
    /\ flat_md' = << >>
    /\ normalized' = NoCall
    /\ UNCHANGED otherThanMeta

InitMeta == SimIdle /\ UriIdle /\ MetaIdle /\ FieldIdle /\ ClientIdle /\ LoaderIdle /\ SessionIdle

NextMeta ==
    \/ SetItem
    \/ Normalize
    \/ ClearMeta

SpecMeta == InitMeta /\ [][NextMeta]_vars

-----------------------------------------------------------------------------
(* The "before" field validators called on their own *)

\* the characters and names an ids string is made of
IdsTokens == {",", " ", "core_profiles", "equilibrium"}

\* the ids strings: a comma-separated body, bare or inside one bracket pair
IdsStrings ==
    LET bodies == UNION {[1..n -> IdsTokens] : n \in 0..MaxIdsLen} IN
    bodies \cup {<<"[">> \o b \o <<"]">> : b \in bodies}

\* values handed to the ids_types field
IdsValues ==
    {PyStr(s) : s \in IdsStrings}
    \cup {PyNone, PyNum(1), PyList(<< >>),
          PyList(<<W("core_profiles"), W("equilibrium")>>)}

\* values handed to a uuid field
UuidValues ==
    {W("abc123"), PyNone, PyNum(1), PyList(<<W("hex")>>), PyDict(EmptyMap),
     PyDict(<<"_type">> :> W("UUID")),
     PyDict(<<"hex">> :> W("abc123")),
     PyDict(<<"hex">> :> PyNum(1)),
     PyDict((<<"_type">> :> W("UUID")) @@ (<<"hex">> :> W("abc123")))}

\* SimulationSummary.parse_ids_string(value)
ParseIdsString ==
    /\ validator = "none"
    /\ \E value \in IdsValues :
        /\ field_value' = value
        /\ validated' = parse_ids_string(value)
    /\ validator' = "SimulationSummary.ids_types"
    /\ UNCHANGED otherThanField

\* SimulationSummary.parse_uuid(value) and DataObject.parse_uuid(value)
ParseUuid ==
    /\ validator = "none"
    /\ \E c \in {"SimulationSummary", "DataObject"}, value \in UuidValues :
        /\ validator' = IF c = "DataObject" THEN "DataObject.uuid"
                        ELSE "SimulationSummary.uuid"
        /\ field_value' = value
        /\ validated' = parse_uuid(value)
    /\ UNCHANGED otherThanField

\* the next value is validated afresh
ForgetField ==
    /\ validator # "none"
    /\ validator' = "none"
    /\ field_value' = NoValue
    /\ validated' = NoValue
    /\ UNCHANGED otherThanField

InitField == SimIdle /\ UriIdle /\ MetaIdle /\ FieldIdle /\ ClientIdle /\ LoaderIdle /\ SessionIdle

NextField ==
    \/ ParseIdsString
    \/ ParseUuid
    \/ ForgetField

SpecField == InitField /\ [][NextField]_vars

-----------------------------------------------------------------------------
(* The SimDB client as a state machine *)

\* HTTP status codes a SimDB server answers with
StatusCodes == {200, 201, 204, 400, 401, 403, 404, 409, 422, 500, 502, 503}

\* the server replies with a status code
Reply(code) == [kind |-> "reply", status_code |-> code]

\* replies, and failures to reach the server or to hear from it
ServerBehaviours ==
    {Reply(code) : code \in StatusCodes}
    \cup {[kind |-> "httpx.ConnectError"], [kind |-> "httpx.ReadTimeout"]}

\* endpoint paths: bare, and with the metadata fields as a query string
Endpoints ==
    {<<"simulations">>,
     <<"simulations", "?", "description", "&", "ids">>}

\* constraint parameters: field -> list of values, in insertion order
ConstraintSets ==
    {<< >>,
     <<[k |-> <<"machine">>, v |-> <<(<<"ITER">>)>>]>>,
     <<[k |-> <<"machine">>, v |-> <<(<<"ITER">>)>>],
       [k |-> <<"status">>, v |-> <<(<<"passed">>)>>]>>,
     <<[k |-> <<"alias">>, v |-> <<(<<"a1">>), <<"a2">>>>]>>}

\* the server starts answering differently
ServerBecomes ==
    /\ http_request = NoValue
    /\ \E srv \in ServerBehaviours :
        /\ srv # http_server
        /\ http_server' = srv
    /\ UNCHANGED <<http_request, http_response>>
    /\ UNCHANGED otherThanClient

\* await self._make_request(client, endpoint, params, headers)
MakeRequest ==
    /\ http_request = NoValue
    /\ \E endpoint \in Endpoints, items \in ConstraintSets :
        /\ http_request' = [endpoint |-> endpoint, params |-> items]
        /\ http_response' = make_request(http_server, endpoint, items)
    /\ UNCHANGED http_server
    /\ UNCHANGED otherThanClient

\* the caller has consumed the reply or the exception
RequestDone ==
    /\ http_request # NoValue
    /\ http_request' = NoValue
    /\ http_response' = NoCall
    /\ UNCHANGED http_server
    /\ UNCHANGED otherThanClient

InitClient == SimIdle /\ UriIdle /\ MetaIdle /\ FieldIdle /\ ClientIdle /\ LoaderIdle /\ SessionIdle

NextClient ==
    \/ ServerBecomes
    \/ MakeRequest
    \/ RequestDone

SpecClient == InitClient /\ [][NextClient]_vars

-----------------------------------------------------------------------------
(* The IDS loader under concurrent calls: IdsLoader, imas/loader.py *)

\* the coroutines that share one IdsLoader
Tasks == {"t1", "t2"}

\* a coroutine between two calls
Returned == [op |-> "none", pc |-> "idle", on |-> 0]

\* connect calls that will still open a DBEntry
ConnectsInFlight ==
    {t \in Tasks : task[t].op = "connect" /\ task[t].pc \in {"to_thread", "locked"}}

\* coroutine code up to its first await runs on the event-loop thread, which
\* no other coroutine is using
CanRun(t) == task[t].pc = "idle" /\ event_loop = "free"

\* await loader.connect(), up to anyio.to_thread.run_sync(_connect)
Connect(t) ==
    /\ CanRun(t)
    /\ Len(db_entries) + Cardinality(ConnectsInFlight) < MaxEntries
    /\ task' = [task EXCEPT ![t] =
                   IF loader_entry # 0
                   THEN [op |-> "connect", pc |-> "returning", on |-> 0]
                   ELSE [op |-> "connect", pc |-> "to_thread", on |-> 0]]
    /\ UNCHANGED <<loader_entry, db_entries, imas_lock, event_loop>>
    /\ UNCHANGED otherThanLoader

\* await loader.get(ids_name) / await loader.list_ids(), up to
\* anyio.to_thread.run_sync; raises ImasDataError when not connected
Read(t, op) ==
    /\ CanRun(t)
    /\ task' = [task EXCEPT ![t] =
                   IF loader_entry = 0
                   THEN [op |-> op, pc |-> "returning", on |-> 0]
                   ELSE [op |-> op, pc |-> "to_thread", on |-> 0]]
    /\ UNCHANGED <<loader_entry, db_entries, imas_lock, event_loop>>
    /\ UNCHANGED otherThanLoader

\* the worker thread enters `with _imas_lock:` and starts its IMAS call:
\* imas.DBEntry(uri, "r") for connect, self.entry.get / list_all_occurrences
\* on whatever self.entry is by now for get and list_ids
AcquireLock(t) ==
    /\ task[t].pc = "to_thread"
    /\ imas_lock = "free"
    /\ IF task[t].op # "connect" /\ loader_entry = 0
       THEN \* AttributeError on None: the lock is released at once
            /\ task' = [task EXCEPT ![t].pc = "returning"]
            /\ UNCHANGED imas_lock
       ELSE /\ task' = [task EXCEPT ![t].pc = "locked", ![t].on = loader_entry]
            /\ imas_lock' = t
    /\ UNCHANGED <<loader_entry, db_entries, event_loop>>
    /\ UNCHANGED otherThanLoader

\* the IMAS call returns or raises and the worker thread leaves the
\* `with _imas_lock:` block
ReleaseLock(t) ==
    /\ task[t].pc = "locked"
    /\ imas_lock = t
    /\ imas_lock' = "free"
    /\ \/ /\ task[t].op = "connect"
          /\ db_entries' = Append(db_entries, "open")
          /\ task' = [task EXCEPT ![t].pc = "returning", ![t].on = Len(db_entries) + 1]
       \/ /\ task' = [task EXCEPT ![t].pc = "returning", ![t].on = 0]
          /\ UNCHANGED db_entries
    /\ UNCHANGED <<loader_entry, event_loop>>
    /\ UNCHANGED otherThanLoader

\* the coroutine resumes on the event-loop thread after run_sync: connect
\* stores the DBEntry it got in self.entry; every call then returns or raises
Resume(t) ==
    /\ task[t].pc = "returning"
    /\ event_loop = "free"
    /\ loader_entry' = IF task[t].op = "connect" /\ task[t].on # 0
                       THEN task[t].on
                       ELSE loader_entry
    /\ task' = [task EXCEPT ![t] = Returned]
    /\ UNCHANGED <<db_entries, imas_lock, event_loop>>
    /\ UNCHANGED otherThanLoader

\* await loader.disconnect(): self.entry.close() starts, on the event-loop
\* thread and without _imas_lock
Disconnect(t) ==
    /\ CanRun(t)
    /\ IF loader_entry = 0
       THEN /\ task' = [task EXCEPT ![t] = [op |-> "disconnect", pc |-> "returning", on |-> 0]]
            /\ UNCHANGED event_loop
       ELSE /\ task' = [task EXCEPT ![t] =
                           [op |-> "disconnect", pc |-> "closing", on |-> loader_entry]]
            /\ event_loop' = t
    /\ UNCHANGED <<loader_entry, db_entries, imas_lock>>
    /\ UNCHANGED otherThanLoader

\* self.entry.close() returns; self.entry = None; disconnect returns
Closed(t) ==
    /\ task[t].pc = "closing"
    /\ event_loop = t
    /\ db_entries' = [db_entries EXCEPT ![task[t].on] = "closed"]
    /\ loader_entry' = 0
    /\ event_loop' = "free"
    /\ task' = [task EXCEPT ![t] = Returned]
    /\ UNCHANGED imas_lock
    /\ UNCHANGED otherThanLoader

InitLoader == SimIdle /\ UriIdle /\ MetaIdle /\ FieldIdle /\ ClientIdle /\ LoaderIdle /\ SessionIdle

NextLoader ==
    \E t \in Tasks :
        \/ Connect(t)
        \/ \E op \in {"get", "list_ids"} : Read(t, op)
        \/ AcquireLock(t)
        \/ ReleaseLock(t)
        \/ Resume(t)
        \/ Disconnect(t)
        \/ Closed(t)

SpecLoader == InitLoader /\ [][NextLoader]_vars

-----------------------------------------------------------------------------
(* The session set-up of the SimDB client as a state machine *)

\* the cookies a server sets
CookieJars ==
    {Jar(<<"session">> :> W("new")),
     Jar((<<"session">> :> W("old")) @@ (<<"token">> :> W("abc")))}

\* what the cache file can hold: nothing, bytes that are no pickle, the
\* pickle of something that is no dict, the pickle of a cookie dict
CacheFiles ==
    {NoFile, Garbage, PickleOf(W("x"))} \cup {PickleOf(CookieDict(c)) : c \in CookieJars}

\* file-creation masks: 0, 0o022, 0o077
Umasks == {0, 18, 63}

\* settings with and without a password
CredentialSettings ==
    {[username |-> <<"user">>, password |-> <<"secret">>],
     [username |-> <<"user">>, password |-> << >>]}

\* endpoint URLs a server lists: versions 1.2, 1.9 and 1.10 of the API, and
\* two endpoints without a version
ApiBase == <<"https", ":", "/", "/", "simdb", "/", "api">>
EndpointUrls ==
    {PyStr(ApiBase \o <<"/", "v", "1", ".", "2">>),
     PyStr(ApiBase \o <<"/", "v", "1", ".", "9">>),
     PyStr(ApiBase \o <<"/", "v", "1", ".", "1", "0">>),
     PyStr(ApiBase),
     PyStr(<<"https", ":", "/", "/", "simdb", "/", "v", "alidate">>)}

\* what GET / does, apart from listing endpoints: a login page, JSON without
\* an endpoint list, JSON that is no object, a JSON error reply, no reply
RootBehaviours ==
    {Listing(<< >>),
     RootReply(200, HtmlBody),
     RootReply(200, JsonBody(PyDict(EmptyMap))),
     RootReply(200, JsonBody(PyList(<< >>))),
     RootReply(401, JsonBody(PyDict(<<"error">> :> W("unauthorized")))),
     [kind |-> "httpx.ConnectError"],
     [kind |-> "httpx.ReadTimeout"]}

\* what POST /my.policy does: accepts and sets cookies, refuses, fails, or
\* does not reply
PolicyBehaviours ==
    {PolicyReply(200, c) : c \in CookieJars}
    \cup {PolicyReply(code, Jar(EmptyMap)) : code \in {401, 403, 500}}
    \cup {[kind |-> "httpx.ConnectError"], [kind |-> "httpx.ReadTimeout"]}

\* the server starts answering GET / differently
RootBecomes ==
    /\ session_call = NoValue
    /\ \E b \in RootBehaviours :
        /\ b # simdb_site.root
        /\ simdb_site' = [simdb_site EXCEPT !.root = b]
    /\ UNCHANGED <<cookies_file, umask, credentials, session_log, session_call>>
    /\ UNCHANGED otherThanSession

\* the server lists one more endpoint
Publishes ==
    /\ session_call = NoValue
    /\ simdb_site.root.kind = "reply"
    /\ simdb_site.root.body.json
    /\ simdb_site.root.body.data.t = "dict"
    /\ <<"endpoints">> \in DOMAIN simdb_site.root.body.data.v
    /\ Len(simdb_site.root.body.data.v[<<"endpoints">>].v) < MaxEndpoints
    /\ \E ep \in EndpointUrls :
        simdb_site' = [simdb_site EXCEPT !.root =
            Listing(Append(simdb_site.root.body.data.v[<<"endpoints">>].v, ep))]
    /\ UNCHANGED <<cookies_file, umask, credentials, session_log, session_call>>
    /\ UNCHANGED otherThanSession

\* the server starts answering POST /my.policy differently
PolicyBecomes ==
    /\ session_call = NoValue
    /\ \E b \in PolicyBehaviours :
        /\ b # simdb_site.policy
        /\ simdb_site' = [simdb_site EXCEPT !.policy = b]
    /\ UNCHANGED <<cookies_file, umask, credentials, session_log, session_call>>
    /\ UNCHANGED otherThanSession

\* the cache file is removed, damaged or replaced between two sessions
CacheBecomes ==
    /\ session_call = NoValue
    /\ \E f \in CacheFiles :
        /\ f # cookies_file
        /\ cookies_file' = f
    /\ UNCHANGED <<umask, credentials, simdb_site, session_log, session_call>>
    /\ UNCHANGED otherThanSession

\* the application calls os.umask(m)
SetUmask ==
    /\ session_call = NoValue
    /\ \E m \in Umasks :
        /\ m # umask
        /\ umask' = m
    /\ UNCHANGED <<cookies_file, credentials, simdb_site, session_log, session_call>>
    /\ UNCHANGED otherThanSession

\* SIMDB_USERNAME / SIMDB_PASSWORD are set differently
SetCredentials ==
    /\ session_call = NoValue
    /\ \E c \in CredentialSettings :
        /\ c # credentials
        /\ credentials' = c
    /\ UNCHANGED <<cookies_file, umask, simdb_site, session_log, session_call>>
    /\ UNCHANGED otherThanSession

\* self._cookies = await self._get_cookies()
GetCookies ==
    /\ session_call = NoValue
    /\ session_call' = [op |-> "_get_cookies",
                        out |-> get_cookies(cookies_file, simdb_site, credentials, umask).out,
                        file_before |-> cookies_file,
                        umask_before |-> umask]
    /\ session_log' = get_cookies(cookies_file, simdb_site, credentials, umask).log
    /\ cookies_file' = get_cookies(cookies_file, simdb_site, credentials, umask).file
    /\ umask' = get_cookies(cookies_file, simdb_site, credentials, umask).umask
    /\ UNCHANGED <<credentials, simdb_site>>
    /\ UNCHANGED otherThanSession

\* self._api_version = await self._detect_api_version()
DetectApiVersion ==
    /\ session_call = NoValue
    /\ session_call' = [op |-> "_detect_api_version",
                        out |-> Ok(PyStr(detect_api_version(simdb_site))),
                        file_before |-> cookies_file,
                        umask_before |-> umask]
    /\ session_log' = <<RootRequest(NoValue)>>
    /\ UNCHANGED <<cookies_file, umask, credentials, simdb_site>>
    /\ UNCHANGED otherThanSession

\* the caller has consumed what the call returned or raised
SessionDone ==
    /\ session_call # NoValue
    /\ session_call' = NoValue
    /\ session_log' = << >>
    /\ UNCHANGED <<cookies_file, umask, credentials, simdb_site>>
    /\ UNCHANGED otherThanSession

InitSession == SimIdle /\ UriIdle /\ MetaIdle /\ FieldIdle /\ ClientIdle /\ LoaderIdle /\ SessionIdle

NextSession ==
    \/ RootBecomes
    \/ Publishes
    \/ PolicyBecomes
    \/ CacheBecomes
    \/ SetUmask
    \/ SetCredentials
    \/ GetCookies
    \/ DetectApiVersion
    \/ SessionDone

SpecSession == InitSession /\ [][NextSession]_vars

-----------------------------------------------------------------------------
(* Properties of the record validators *)

\* the payload is a SimDB reply: it carries a "metadata" array
IsApiPayload ==
    /\ payload.t = "dict"
    /\ <<"metadata">> \in DOMAIN payload.v
    /\ payload.v[<<"metadata">>].t = "list"

\* the well-formed entries of the reply's metadata array that name `status`
StatusEntries ==
    LET m == payload.v[<<"metadata">>].v IN
    {i \in 1..Len(m) :
        /\ Get(m[i].v, <<"element">>, EmptyStr) = PyStr(<<"status">>)
        /\ Get(m[i].v, <<"value">>, PyNone).t # "none"}

\* C1: when the metadata array of an API reply carries a status value that is
\* not one of passed / failed / pending, from_api_response produces a record
\* whose status is "pending" instead of failing validation.
C1_UnrecognizedStatusIsPending ==
    (/\ IsApiPayload
     /\ StatusEntries # {}
     /\ \A i \in StatusEntries :
            payload.v[<<"metadata">>].v[i].v[<<"value">>].v \notin StatusValues)
    => (record.ok /\ record.v.v[<<"status">>] = W("pending"))

\* C2: running the API-response transformation again on the serialized
\* output of a first transformation succeeds and returns a record equal to
\* the first one.
C2_TransformIdempotent ==
    (IsApiPayload /\ record.ok /\ record2 # NoCall) => record2 = record

\* C3: for every status s in {passed, failed, pending}, constructing a record
\* with status s, serializing it and reconstructing from the serialized form
\* succeeds and yields a record whose status is s.
C3_StatusRoundTrip ==
    (/\ payload.t = "dict"
     /\ <<"metadata">> \notin DOMAIN payload.v
     /\ record.ok
     /\ record2 # NoCall)
    => (/\ record2.ok
        /\ record2.v.v[<<"status">>] = payload.v[<<"status">>]
        /\ payload.v[<<"status">>].v \in StatusValues)

-----------------------------------------------------------------------------
(* Properties of the access URI *)

\* the URI string has a network authority: "//" right after the scheme,
\* followed by at least one character of host, user or port
HasAuthority(u) ==
    LET start == IF StartsWith(u, SchemePrefix) THEN Len(SchemePrefix) + 1 ELSE 1
    IN  /\ Len(u) >= start + 2
        /\ u[start] = "/" /\ u[start + 1] = "/"
        /\ u[start + 2] \notin {"/", "?", "#"}

\* the data of URI u is present among the files fs: a file of the kind its
\* backend stores, at or directly under its path
LocalDataPresent(u, fs) ==
    /\ u.path # PyNone
    /\ \E f \in fs :
        \/ u.backend = <<"hdf", "5">> /\ f = u.path.v \o <<"/", "master", ".", "h", "5">>
        \/ /\ u.backend = <<"netcdf">>
           /\ EndsWith(f, <<".", "nc">>)
           /\ IF EndsWith(u.path.v, <<".", "nc">>) THEN f = u.path.v
              ELSE DirectlyUnder(f, u.path.v)
        \/ /\ u.backend = <<"ascii">>
           /\ EndsWith(f, <<".", "ids">>)
           /\ DirectlyUnder(f, u.path.v)

\* the short local form imas:{backend}?path={path}
LocalForm(u) == <<"imas", ":">> \o u.backend \o <<"?", "path", "=">> \o u.path.v

\* something exists at path x or below it
PathExists(x, fs) == \E f \in fs : f = x \/ StartsWith(f, x \o <<"/">>)

\* the value of a legacy query parameter of the URI string is not an integer
Malformed(name) ==
    LET x == QueryGet(urlparse(uri_raw).query, name)
    IN  x # PyNone /\ ~IntLiteral(x.v).ok

C5_RemoteHdf5WithMasterConverts ==
    ( /\ call.op \in {"can_convert_to_local", "to_local"}
      /\ HasAuthority(uri_raw)
      /\ core_uri.v.backend = <<"hdf", "5">>
      /\ core_uri.v.path # PyNone
      /\ (core_uri.v.path.v \o <<"/", "master", ".", "h", "5">>) \in call.at )
    => /\ call.op = "can_convert_to_local" => call.result = Ok(TRUE)
       /\ call.op = "to_local" =>
            /\ call.result = Ok(PyStr(<<"imas", ":", "hdf", "5", "?", "path", "=">>
                                      \o core_uri.v.path.v))
            /\ ~HasAuthority(call.result.v.v)

\* to_local() was called on a remote hdf5 URI while master.h5 was there
C5_Witness ==
    /\ call.op = "to_local"
    /\ HasAuthority(uri_raw)
    /\ core_uri.v.backend = <<"hdf", "5">>
    /\ core_uri.v.path = PyStr(DataDir)
    /\ (DataDir \o <<"/", "master", ".", "h", "5">>) \in call.at
    /\ call.result.v.v # uri_raw

\* C6: can_convert_to_local() is false for every URI without a network
\* authority, whatever files exist.
C6_NoAuthorityNeverConverts ==
    (call.op = "can_convert_to_local" /\ ~HasAuthority(uri_raw))
        => call.result = Ok(FALSE)

\* can_convert_to_local() was called on a local hdf5 URI whose path holds
\* every file of the universe
C6_Witness ==
    /\ call.op = "can_convert_to_local"
    /\ ~HasAuthority(uri_raw)
    /\ core_uri.v.path = PyStr(DataDir)
    /\ core_uri.v.backend = <<"hdf", "5">>
    /\ call.at = FileUniverse

\* C7: is_remote of a parsed URI is true iff the URI string has a non-empty
\* network authority.
C7_IsRemoteIffAuthority ==
    parsed.ok => (parsed.v.is_remote <=> HasAuthority(uri_raw))

\* a URI with "//" and an empty authority was parsed as not remote
C7_Witness ==
    /\ parsed.ok
    /\ StartsWith(uri_raw, <<"imas", ":", "/", "/">>)
    /\ ~HasAuthority(uri_raw)
    /\ ~parsed.v.is_remote

\* C8: for a remote URI whose path does not exist on disk, str(uri) returns
\* the original string and does not raise.
C8_StrIsOriginalWhenPathMissing ==
    ( /\ call.op \in {"str", "raw_str"}
      /\ HasAuthority(uri_raw)
      /\ core_uri.v.path # PyNone
      /\ ~PathExists(core_uri.v.path.v, call.at) )
    => call.result = Ok(PyStr(uri_raw))

\* str(uri) was called on a remote hdf5 URI whose path is missing while
\* other files exist
C8_Witness ==
    /\ call.op = "str"
    /\ HasAuthority(uri_raw)
    /\ core_uri.v.backend = <<"hdf", "5">>
    /\ core_uri.v.path = PyStr(<<"/", "n">>)
    /\ call.at = FileUniverse
    /\ call.result = Ok(PyStr(uri_raw))

\* C9: to_local() on a URI that is not convertible returns the original
\* string and does not raise, and it warns only if the URI is remote and the
\* conversion failed.
C9_ToLocalFallsBackToOriginal ==
    call.op = "to_local" =>
        LET convertible == HasAuthority(uri_raw) /\ LocalDataPresent(core_uri.v, call.at)
        IN  /\ ~convertible => call.result = Ok(PyStr(uri_raw))
            /\ call.warned => (HasAuthority(uri_raw) /\ ~convertible)

\* to_local() was called on a local URI whose data is on disk: the original
\* came back without a warning
C9_Witness ==
    /\ call.op = "to_local"
    /\ ~HasAuthority(uri_raw)
    /\ core_uri.v.path = PyStr(DataDir)
    /\ core_uri.v.backend = <<"hdf", "5">>
    /\ call.at = FileUniverse
    /\ call.result = Ok(PyStr(uri_raw))
    /\ ~call.warned

\* C10: parsing a URI whose shot or run parameter is not an integer does not
\* raise, and the field is null.
C10_MalformedShotRunIsNull ==
    (uri_raw # << >> /\ (Malformed(<<"shot">>) \/ Malformed(<<"run">>)))
        => /\ parsed.ok
           /\ Malformed(<<"shot">>) => parsed.v.shot = PyNone
           /\ Malformed(<<"run">>) => parsed.v.run = PyNone

-----------------------------------------------------------------------------
(* Properties of the metadata normalizer *)

\* C11: from_metadata_dict never raises, whatever the flat mapping holds.
C11_NormalizerNeverRaises ==
    normalized # NoCall => normalized.ok

\* C12: from_metadata_dict of the empty mapping is a SimulationMetadata
\* whose datetime and six category sub-records are all null.
C12_EmptyMappingAllNull ==
    (normalized # NoCall /\ flat_md = << >>)
        => /\ normalized.ok
           /\ normalized.v.t = "model"
           /\ \A f \in {<<"datetime">>, <<"composition">>, <<"ids", "_", "properties">>,
                        <<"global", "_", "quantities">>,
                        <<"heating", "_", "current", "_", "drive">>,
                        <<"boundary">>, <<"code">>} :
                f \in DOMAIN normalized.v.v /\ normalized.v.v[f] = PyNone

\* the empty mapping was normalized
C12_Witness ==
    /\ flat_md = << >>
    /\ normalized # NoCall
    /\ normalized.ok

-----------------------------------------------------------------------------
(* Properties of the record defaults and field validators *)

\* the reply's metadata array has an entry that names key and carries a value
Supplies(key) ==
    LET m == payload.v[<<"metadata">>].v IN
    \E i \in 1..Len(m) :
        /\ m[i].t = "dict"
        /\ Get(m[i].v, <<"element">>, EmptyStr) = PyStr(key)
        /\ Get(m[i].v, <<"value">>, PyNone).t # "none"

\* the reply carries uuid and alias next to its metadata array
HasUuidAndAlias ==
    /\ IsApiPayload
    /\ {<<"uuid">>, <<"alias">>} \subseteq DOMAIN payload.v

\* C14: in the record made from an API reply that has a metadata array, a
\* uuid and an alias, every required field the metadata array does not supply
\* holds its default: machine "", code {name: ""}, description "", status
\* "pending".
C14_MissingRequiredFieldsTakeDefaults ==
    (HasUuidAndAlias /\ record.ok) =>
        /\ ~Supplies(<<"machine">>) => record.v.v[<<"machine">>] = EmptyStr
        /\ ~Supplies(<<"code", ".", "name">>) =>
              record.v.v[<<"code">>] =
                  PyModel("CodeInfo", (<<"name">> :> EmptyStr) @@ (<<"version">> :> PyNone))
        /\ ~Supplies(<<"description">>) => record.v.v[<<"description">>] = EmptyStr
        /\ ~Supplies(<<"status">>) => record.v.v[<<"status">>] = W("pending")

\* a reply with an empty metadata array became a record made of defaults only
C14_Witness ==
    /\ HasUuidAndAlias
    /\ payload.v[<<"metadata">>].v = << >>
    /\ record.ok
    /\ record.v.v[<<"machine">>] = EmptyStr
    /\ record.v.v[<<"code">>].v[<<"name">>] = EmptyStr
    /\ record.v.v[<<"description">>] = EmptyStr
    /\ record.v.v[<<"status">>] = W("pending")

\* s without its surrounding bracket pair
StripBracketPair(s) ==
    IF Len(s) >= 2 /\ s[1] = "[" /\ s[Len(s)] = "]"
    THEN SubSeq(s, 2, Len(s) - 1)
    ELSE s

\* the comma-separated elements of s, each without surrounding blanks
TrimmedElements(s) ==
    LET parts == Split(s, ",") IN
    [i \in 1..Len(parts) |-> PyStr(Strip(parts[i], {" "}))]

C16_UuidHexExtracted ==
    validator \in {"SimulationSummary.uuid", "DataObject.uuid"} =>
        IF field_value.t = "dict" /\ <<"hex">> \in DOMAIN field_value.v
        THEN validated = field_value.v[<<"hex">>]
        ELSE validated = field_value

\* {"_type": ..., "hex": "abc123"} became "abc123" for a data object
C16_Witness ==
    /\ validator = "DataObject.uuid"
    /\ field_value = PyDict((<<"_type">> :> W("UUID")) @@ (<<"hex">> :> W("abc123")))
    /\ validated = W("abc123")

\* positions of the IMAS-type entries of the record's outputs
ImasOutputs ==
    LET outputs == record.v.v[<<"outputs">>].v IN
    {i \in 1..Len(outputs) : outputs[i].v[<<"type">>] = W("IMAS")}

\* C17: once a full Simulation is validated, its imas_uri is the uri of the
\* first IMAS-type entry of outputs, in list order; it is empty when outputs
\* has no IMAS-type entry; it is never the uri of a FILE-type entry.
C17_ImasUriIsFirstImasOutput ==
    (model_cls = "Simulation" /\ record.ok) =>
        LET outputs == record.v.v[<<"outputs">>].v
            imas_uri == record.v.v[<<"imas", "_", "uri">>]
        IN  /\ IF ImasOutputs = {}
               THEN imas_uri = EmptyStr
               ELSE imas_uri =
                      outputs[CHOOSE i \in ImasOutputs :
                                 \A j \in ImasOutputs : i <= j].v[<<"uri">>]
            /\ \A i \in 1..Len(outputs) :
                  outputs[i].v[<<"type">>] = W("FILE")
                      => imas_uri # outputs[i].v[<<"uri">>]

-----------------------------------------------------------------------------
(* Properties of the SimDB client *)

-----------------------------------------------------------------------------
(* Properties of the IDS loader *)

\* the threads that are inside an operation on an imas.DBEntry: a worker
\* thread inside its IMAS call, the event-loop thread inside close()
OnDBEntry == {t \in Tasks : task[t].pc \in {"locked", "closing"}}

\* C19: in every interleaving of concurrent connect, get, list_ids and
\* disconnect calls on one IdsLoader, at most one thread at a time is
\* executing an operation on an imas.DBEntry (open, get, list or close).
C19_DBEntryAccessSerialized == Cardinality(OnDBEntry) <= 1

-----------------------------------------------------------------------------
(* Properties of bare filesystem paths *)

-----------------------------------------------------------------------------
(* Properties of the parsed backend *)

\* the first segment of the path of URI string u, the empty string when the
\* path is empty
FirstPathSegment(u) == Split(LStrip(urlparse(u).path, {"/"}), "/")[1]

\* C21: for a URI with the scheme prefix, the parsed backend is the value of
\* the `backend` query parameter when the parameter is present, otherwise
\* the first path segment of the URI, and "unknown" when neither yields a
\* value.
C21_BackendFromParameterOrFirstSegment ==
    (StartsWith(uri_raw, SchemePrefix) /\ parsed.ok) =>
        LET given == QueryGet(urlparse(uri_raw).query, <<"backend">>) IN
        parsed.v.backend =
            IF given # PyNone THEN given.v
            ELSE IF FirstPathSegment(uri_raw) # << >> THEN FirstPathSegment(uri_raw)
            ELSE <<"unknown">>

-----------------------------------------------------------------------------
(* Further properties of the metadata normalizer *)

\* the fields of SimulationMetadata that hold a category sub-record
CategoryFields ==
    {<<"composition">>, <<"ids", "_", "properties">>, <<"global", "_", "quantities">>,
     <<"heating", "_", "current", "_", "drive">>, <<"boundary">>, <<"code">>}

\* C22: no result of the normalizer holds a non-null category sub-record all
\* of whose fields are null; a mapping whose keys for a category name only
\* unknown fields, such as an unknown species, leaves that category null.
C22_NoAllNullSubRecord ==
    (normalized # NoCall /\ normalized.ok) =>
        \A c \in CategoryFields :
            normalized.v.v[c] # PyNone =>
                \E f \in DOMAIN normalized.v.v[c].v : normalized.v.v[c].v[f] # PyNone

\* key lies under heating_current_drive.<device>[<index>].
UnderHeatingDevice(key) ==
    /\ StartsWith(key, <<"heating", "_", "current", "_", "drive", ".">>)
    /\ Len(key) >= 12
    /\ key[8] = "[" /\ key[10] = "]" /\ key[11] = "."

\* <device>_<index>_ of such a key
DevicePrefix(key) == <<key[7], "_", key[9], "_">>

\* key is heating_current_drive.<device>[<index>].<field>.value
IsHeatingValueKey(key) ==
    /\ UnderHeatingDevice(key)
    /\ Len(key) = 14
    /\ key[13] = "." /\ key[14] = "value"

\* field f of the heating_current_drive sub-record holds x
HeatingHolds(f, x) ==
    LET heating == normalized.v.v[<<"heating", "_", "current", "_", "drive">>] IN
    /\ heating # PyNone
    /\ f \in DOMAIN heating.v
    /\ heating.v[f] = x

\* C23: in the heating_current_drive pass every key
\* heating_current_drive.<device>[<index>].<field>.value sets field
\* <device>_<index>_<field>, and every key under
\* heating_current_drive.<device>[<index>] that ends in .source sets field
\* <device>_<index>_power_source.
C23_HeatingKeysSetFields ==
    (normalized # NoCall /\ normalized.ok) =>
        \A i \in 1..Len(flat_md) :
            LET key == flat_md[i].k IN
            /\ IsHeatingValueKey(key) =>
                  HeatingHolds(DevicePrefix(key) \o <<key[12]>>, flat_md[i].v)
            /\ (UnderHeatingDevice(key) /\ EndsWith(key, <<".", "source">>)) =>
                  HeatingHolds(DevicePrefix(key) \o <<"power", "_", "source">>,
                               flat_md[i].v)

-----------------------------------------------------------------------------
(* Properties of the flattening of the metadata array *)

\* an entry of the metadata array with a non-empty element name and a
\* non-null value
WellFormedEntry(item) ==
    /\ item.t = "dict"
    /\ Truthy(Get(item.v, <<"element">>, EmptyStr))
    /\ Get(item.v, <<"value">>, PyNone) # PyNone

\* the reply without the malformed entries of its metadata array
WithoutMalformed ==
    PyDict([payload.v EXCEPT ![<<"metadata">>] =
                PyList(SelectSeq(payload.v[<<"metadata">>].v, WellFormedEntry))])

\* C24: while the metadata array of an API reply is flattened, an entry with
\* no element, an empty element name, no value or a null value is skipped and
\* never makes the transformation fail; every well-formed entry puts its key
\* and value in the flat mapping.
C24_MalformedEntriesSkipped ==
    IsApiPayload =>
        LET m == payload.v[<<"metadata">>].v
            flat == FlattenMetadata(payload.v[<<"metadata">>])
            wf == {i \in 1..Len(m) : WellFormedEntry(m[i])}
        IN  /\ flat.ok
            /\ ODKeys(flat.v) = {m[i].v[<<"element">>].v : i \in wf}
            /\ \A i \in wf :
                  (\A j \in wf : m[j].v[<<"element">>] = m[i].v[<<"element">>] => j <= i)
                      => ODGet(flat.v, m[i].v[<<"element">>].v) = m[i].v[<<"value">>]
            /\ transform_api_response(payload) = transform_api_response(WithoutMalformed)

\* a reply with an entry that has no value, followed by a well-formed machine
\* entry, became a record with that machine
C24_Witness ==
    /\ IsApiPayload
    /\ payload.v[<<"metadata">>].v =
          <<PyDict(<<"element">> :> W("machine")), Item(<<"machine">>, W("ITER"))>>
    /\ record.ok
    /\ record.v.v[<<"machine">>] = W("ITER")

\* the positions of the well-formed entries of the metadata array named key
EntriesNamed(key) ==
    LET m == payload.v[<<"metadata">>].v IN
    {i \in 1..Len(m) : WellFormedEntry(m[i]) /\ m[i].v[<<"element">>] = PyStr(key)}

\* the value of the last entry named key, in array order
LastValueOf(key) ==
    LET last == CHOOSE i \in EntriesNamed(key) : \A j \in EntriesNamed(key) : j <= i
    IN  payload.v[<<"metadata">>].v[last].v[<<"value">>]

Repeated(key) == Cardinality(EntriesNamed(key)) > 1

\* C25: when the metadata array names the same element more than once, the
\* value the record holds for that key, in the flat mapping and in every field
\* filled from it, is the one of the last such entry in array order.
C25_LastWriteWins ==
    IsApiPayload =>
        /\ \A key \in ODKeys(FlattenMetadata(payload.v[<<"metadata">>]).v) :
              Repeated(key) =>
                  ODGet(FlattenMetadata(payload.v[<<"metadata">>]).v, key) = LastValueOf(key)
        /\ record.ok =>
              /\ \A key \in {<<"status">>, <<"machine">>, <<"description">>} :
                    Repeated(key) => record.v.v[key] = LastValueOf(key)
              /\ Repeated(<<"code", ".", "name">>) =>
                    record.v.v[<<"code">>].v[<<"name">>] = LastValueOf(<<"code", ".", "name">>)
              /\ (Repeated(<<"code", ".", "version">>) /\ EntriesNamed(<<"code", ".", "name">>) # {}) =>
                    record.v.v[<<"code">>].v[<<"version">>] = LastValueOf(<<"code", ".", "version">>)

\* a reply naming status twice, first "failed" and then "passed", became a
\* record whose status is "passed"
C25_Witness ==
    /\ IsApiPayload
    /\ payload.v[<<"metadata">>].v =
          <<Item(<<"status">>, W("failed")), Item(<<"status">>, W("passed"))>>
    /\ record.ok
    /\ record.v.v[<<"status">>] = W("passed")

\* val is x or is held somewhere inside x
RECURSIVE Occurs(_, _)
Occurs(val, x) ==
    \/ x = val
    \/ x.t = "list" /\ \E i \in 1..Len(x.v) : Occurs(val, x.v[i])
    \/ x.t \in {"dict", "model"} /\ \E k \in DOMAIN x.v : Occurs(val, x.v[k])

\* C28: a code.version entry of the metadata array reaches the record's code
\* info only when a code.name entry is present too: with code.version and no
\* code.name the record's code is the default, name "" and a null version, and
\* the version value is nowhere in the record.
C28_VersionNeedsName ==
    (IsApiPayload /\ record.ok /\ EntriesNamed(<<"code", ".", "version">>) # {}) =>
        IF EntriesNamed(<<"code", ".", "name">>) # {}
        THEN record.v.v[<<"code">>].v[<<"version">>] = LastValueOf(<<"code", ".", "version">>)
        ELSE /\ record.v.v[<<"code">>] =
                   PyModel("CodeInfo", (<<"name">> :> EmptyStr) @@ (<<"version">> :> PyNone))
             /\ \A i \in EntriesNamed(<<"code", ".", "version">>) :
                   ~Occurs(payload.v[<<"metadata">>].v[i].v[<<"value">>], record.v)

\* a reply with a code.version entry and no code.name entry became a record
\* whose code has an empty name and no version
C28_Witness ==
    /\ IsApiPayload
    /\ payload.v[<<"metadata">>].v = <<Item(<<"code", ".", "version">>, W("v"))>>
    /\ record.ok
    /\ record.v.v[<<"code">>].v[<<"name">>] = EmptyStr
    /\ record.v.v[<<"code">>].v[<<"version">>] = PyNone

\* the DBEntry objects that are open
OpenEntries == {i \in 1..Len(db_entries) : db_entries[i] = "open"}

\* C29: concurrent connect() calls on one loader open at most one
\* imas.DBEntry; once every call has returned, the loader holds the only
\* entry that is open, so no open entry is left unreferenced.
C29_ConnectOpensOneEntry ==
    /\ Cardinality(OpenEntries) <= 1
    /\ (\A t \in Tasks : task[t] = Returned) =>
           \A i \in OpenEntries : loader_entry = i

-----------------------------------------------------------------------------
(* Properties of the session set-up of the SimDB client *)

\* the last call was _get_cookies
GotCookies == session_call # NoValue /\ session_call.op = "_get_cookies"

\* the cache file existed and held a cookie dict when the call started
CacheLoaded ==
    /\ session_call.file_before.kind = "pickle"
    /\ session_call.file_before.v.t = "dict"

\* the server answers GET / with a JSON body
RootIsJson == simdb_site.root.kind = "reply" /\ simdb_site.root.body.json

\* the authentication requests the call issued
PolicyRequests == {i \in 1..Len(session_log) : session_log[i].method = "POST"}

\* username and password are configured
Configured == credentials.username # << >> /\ credentials.password # << >>

\* C26: _get_cookies returns the cached cookies, and issues no authentication
\* request, when the cache file exists, loads and the validation request
\* made with those cookies gets a JSON body; in every other case it
\* authenticates with the configured credentials, and on a 200 reply writes
\* the new cookies to the cache file and returns them, while any other
\* status raises AuthenticationError.
C26_CachedCookiesOrAuthenticate ==
    GotCookies =>
        IF CacheLoaded /\ RootIsJson
        THEN /\ session_call.out = Ok(Jar(session_call.file_before.v.v))
             /\ session_log = <<RootRequest(Jar(session_call.file_before.v.v))>>
             /\ cookies_file = session_call.file_before
        ELSE Configured =>
             /\ Cardinality(PolicyRequests) = 1
             /\ Last(session_log) =
                    PolicyRequest(<<credentials.username, credentials.password>>)
             /\ simdb_site.policy.kind = "reply" =>
                    IF simdb_site.policy.status_code = 200
                    THEN /\ session_call.out = Ok(simdb_site.policy.cookies)
                         /\ cookies_file = PickleOf(PyDict(simdb_site.policy.cookies.v))
                    ELSE /\ session_call.out = Raise("AuthenticationError")
                         /\ cookies_file = session_call.file_before

\* a call that found cached cookies the server no longer accepts (a login
\* page came back), authenticated, and replaced the cache with new cookies
C26_Witness ==
    /\ GotCookies
    /\ session_call.file_before =
          PickleOf(PyDict((<<"session">> :> W("old")) @@ (<<"token">> :> W("abc"))))
    /\ simdb_site.root = RootReply(200, HtmlBody)
    /\ Len(session_log) = 2
    /\ session_call.out = Ok(Jar(<<"session">> :> W("new")))
    /\ cookies_file = PickleOf(PyDict(<<"session">> :> W("new")))

\* C30: a call to _get_cookies leaves the file-creation mask of the process
\* as it was before the call, on every path, the one that authenticates and
\* writes the cookie cache file included.
C30_UmaskPreserved ==
    GotCookies => umask = session_call.umask_before

\* the last call was _detect_api_version
DetectedVersion == session_call # NoValue /\ session_call.op = "_detect_api_version"

\* seg names an API version: "v", a number and, optionally, "." and a number
IsVersionName(seg) ==
    /\ Len(seg) >= 2
    /\ seg[1] = "v"
    /\ Len(Split(Tail(seg), ".")) \in {1, 2}
    /\ \A i \in 1..Len(Split(Tail(seg), ".")) : IsDecimal(Split(Tail(seg), ".")[i])

\* major and minor number of a version name, as one number
VersionRank(seg) ==
    1000 * DecimalValue(Split(Tail(seg), ".")[1])
    + (IF Len(Split(Tail(seg), ".")) = 2 THEN DecimalValue(Split(Tail(seg), ".")[2]) ELSE 0)

\* the endpoints the server lists in its reply to GET /
ListedEndpoints ==
    IF /\ RootIsJson
       /\ simdb_site.root.body.data.t = "dict"
       /\ <<"endpoints">> \in DOMAIN simdb_site.root.body.data.v
    THEN simdb_site.root.body.data.v[<<"endpoints">>].v
    ELSE << >>

\* the versions carried by the listed endpoints
ListedVersions ==
    {Last(Split(ListedEndpoints[i].v, "/")) : i \in 1..Len(ListedEndpoints)}
    \cap {Last(Split(ep.v, "/")) : ep \in {e \in EndpointUrls : IsVersionName(Last(Split(e.v, "/")))}}

\* C27: _detect_api_version returns the latest API version among the
\* versioned endpoints the server lists, and "v1.2" when the request fails,
\* the reply is not JSON, the endpoint list is empty or no listed endpoint
\* carries a version.
C27_LatestVersionOrFallback ==
    DetectedVersion =>
        IF ListedVersions = {}
        THEN session_call.out = Ok(PyStr(<<"v", "1", ".", "2">>))
        ELSE /\ session_call.out.v.v \in ListedVersions
             /\ \A x \in ListedVersions :
                    VersionRank(x) <= VersionRank(session_call.out.v.v)

=============================================================================
